---- MODULE Spec2Model ----
(***************************************************************************)
(* Event timeline backend (src/backend/server.js): the Event schema, the   *)
(* seeding of an empty database, the multer upload middleware, the         *)
(* POST /api/events handler with its Nominatim geocoding call, and the     *)
(* error handlers.                                                         *)
(*                                                                         *)
(* Conventions of the model:                                               *)
(*  - a JavaScript string is a sequence of one-character strings; the      *)
(*    token "Infinity" stands for those eight letters;                     *)
(*  - a form field or JSON property that may be undefined is a record      *)
(*    [present, text];                                                     *)
(*  - a JavaScript number is a record [kind, val], kind one of "finite",   *)
(*    "inf", "nan"; a finite val counts units of 1/10000 (four decimals,   *)
(*    the precision of the seeded coordinates);                            *)
(*  - an instant is the number of milliseconds since 2024-07-15T00:00:00Z. *)
(***************************************************************************)
EXTENDS Integers, Sequences, FiniteSets, TLC

VARIABLES
    store,      \* the events collection, in insertion order
    nextId,     \* the next _id the database assigns
    seed,       \* progress of seedDatabase: "start", "counted0", "countedN", "done"
    req,        \* the POST /api/events requests, one record per request
    disk,       \* the uploads directory: path -> the upload last written there
    now,        \* the last value Date.now() returned
    nodeEnv,    \* process.env.NODE_ENV
    text,       \* the people/tags text of the parsing specification
    parsed,     \* what the handler's two parsing expressions make of it
    get,        \* the GET /api/events requests answered: query and response
    tz,         \* the browser's time zone: local time minus UTC, in ms
    loading,    \* MapTimelinePage: the loading state
    allEvents,  \* MapTimelinePage: the allEvents state
    selectedDate, \* MapTimelinePage: the selectedDate state, <<>> for null
    filters,    \* MapTimelinePage: the filters state
    pageError,  \* MapTimelinePage: the error state, <<>> for null
    address,    \* EventForm: the address state
    addressSuggestions, \* EventForm: the addressSuggestions state
    loadingSuggestions, \* EventForm: the loadingSuggestions state
    formError,  \* EventForm: the error state
    timeout,    \* EventForm: the timer of the debounced function, <<>> when cleared
    clock,      \* the browser's time, in ms
    typed,      \* the calls of handleAddressChange: value and time
    sent        \* the suggestion requests issued to Nominatim: query, time, the
                \* call that armed the timer, and whether the response is pending

serverVars == <<store, nextId, seed, req, disk, now, nodeEnv>>

parseVars == <<text, parsed>>

findVars == <<get>>

clientVars == <<tz, loading, allEvents, selectedDate, filters, pageError>>

formVars == <<address, addressSuggestions, loadingSuggestions, formError, timeout, clock,
              typed, sent>>

vars == <<store, nextId, seed, req, disk, now, nodeEnv, text, parsed, get,
          tz, loading, allEvents, selectedDate, filters, pageError,
          address, addressSuggestions, loadingSuggestions, formError, timeout, clock,
          typed, sent>>

(***************************************************************************)
(* Bounds of the model.                                                    *)
(***************************************************************************)
\* The number of POST requests; they are handled concurrently.
MaxRequests == 1

\* The number of documents in the collection that GET /api/events reads.
MaxStored == 3

\* The number of events the map and timeline page loads.
MaxLoaded == 3

\* The number of changes of the address input, and the time the browser's
\* clock runs, in quarters of a second.
MaxTyped == 3

MaxTicks == 5
\* The last value of the clock.
MaxClock == 1
\* The longest people/tags text of the parsing specification.
MaxLen == 5

Requests == 1..MaxRequests

(***************************************************************************)
(* Strings.                                                                *)
(***************************************************************************)
WhiteSpace == {" ", "\t"}

Digits == {"0", "1", "2", "3", "4", "5", "6", "7", "8", "9"}

DigitVal(c) ==
    CASE c = "0" -> 0 [] c = "1" -> 1 [] c = "2" -> 2 [] c = "3" -> 3 [] c = "4" -> 4
      [] c = "5" -> 5 [] c = "6" -> 6 [] c = "7" -> 7 [] c = "8" -> 8 [] c = "9" -> 9

Undefined == [present |-> FALSE, text |-> <<>>]

Str(s) == [present |-> TRUE, text |-> s]

\* !x of a string-or-undefined value.
Falsy(f) == ~f.present \/ f.text = <<>>

\* s.slice(i - 1): the text from position i on.
Tail2(s, i) == IF i > Len(s) THEN <<>> ELSE SubSeq(s, i, Len(s))

Letters ==
    {"a", "b", "c", "d", "e", "f", "g", "h", "i", "j", "k", "l", "m", "n", "o", "p", "q",
     "r", "s", "t", "u", "v", "w", "x", "y", "z", "A", "B", "C", "D", "E", "F", "G", "H",
     "I", "J", "K", "L", "M", "N", "O", "P", "Q", "R", "S", "T", "U", "V", "W", "X", "Y",
     "Z"}

\* String.prototype.trim, in its two halves.
RECURSIVE TrimStart(_)
TrimStart(s) ==
    IF s # <<>> /\ Head(s) \in WhiteSpace THEN TrimStart(Tail(s)) ELSE s

RECURSIVE TrimEnd(_)
TrimEnd(s) ==
    IF s # <<>> /\ s[Len(s)] \in WhiteSpace THEN TrimEnd(SubSeq(s, 1, Len(s) - 1)) ELSE s

Trim(s) == TrimEnd(TrimStart(s))

\* String.prototype.split with a one-character separator.
RECURSIVE Split(_, _)
Split(s, sep) ==
    IF \E i \in 1..Len(s) : s[i] = sep
    THEN LET i == CHOOSE k \in 1..Len(s) : s[k] = sep /\ \A j \in 1..(k - 1) : s[j] # sep
         IN  <<SubSeq(s, 1, i - 1)>> \o Split(Tail2(s, i + 1), sep)
    ELSE <<s>>

\* String.prototype.startsWith.
StartsWith(s, prefix) ==
    Len(s) >= Len(prefix) /\ SubSeq(s, 1, Len(prefix)) = prefix

(***************************************************************************)
(* Numbers.                                                                *)
(***************************************************************************)
Num(v) == [kind |-> "finite", val |-> v]

NaN == [kind |-> "nan", val |-> 0]

\* Infinity (sign 1) and -Infinity (sign -1).
Inf(sign) == [kind |-> "inf", val |-> sign]

isNaN(n) == n.kind = "nan"

\* The longest prefix of s made of decimal digits.
RECURSIVE DigitRun(_)
DigitRun(s) ==
    IF s # <<>> /\ Head(s) \in Digits THEN <<Head(s)>> \o DigitRun(Tail(s)) ELSE <<>>

\* The value of a run of decimal digits.
RECURSIVE DigitsValue(_)
DigitsValue(d) ==
    IF d = <<>> THEN 0
    ELSE 10 * DigitsValue(SubSeq(d, 1, Len(d) - 1)) + DigitVal(d[Len(d)])

\* The value of the digits after the decimal point, in units of 1/10000.
FractionValue(d) == DigitsValue(SubSeq(d \o <<"0", "0", "0", "0">>, 1, 4))

\* parseFloat: leading white space is skipped, then the longest prefix that is a
\* decimal literal is converted; what follows it is ignored; NaN when there is
\* no such prefix. An undefined argument is the text "undefined", hence NaN.
parseFloat(f) ==
    IF ~f.present THEN NaN
    ELSE LET s      == TrimStart(f.text)
             signed == s # <<>> /\ Head(s) \in {"+", "-"}
             neg    == s # <<>> /\ Head(s) = "-"
             u      == IF signed THEN Tail(s) ELSE s
             ip     == DigitRun(u)
             rest   == Tail2(u, Len(ip) + 1)
             fp     == IF rest # <<>> /\ Head(rest) = "." THEN DigitRun(Tail(rest)) ELSE <<>>
             mag    == DigitsValue(ip) * 10000 + FractionValue(fp)
         IN  IF u # <<>> /\ Head(u) = "Infinity" THEN Inf(IF neg THEN -1 ELSE 1)
             ELSE IF ip = <<>> /\ fp = <<>> THEN NaN
             ELSE Num(IF neg THEN -mag ELSE mag)


(***************************************************************************)
(* Dates.                                                                  *)
(***************************************************************************)
InvalidDate == [valid |-> FALSE, ms |-> 0]

Instant(ms) == [valid |-> TRUE, ms |-> ms]

\* The number written by the two characters of s at i and i + 1, or -1.
TwoDigits(s, i) ==
    IF Len(s) > i /\ s[i] \in Digits /\ s[i + 1] \in Digits
    THEN 10 * DigitVal(s[i]) + DigitVal(s[i + 1])
    ELSE -1

\* new Date(text) for the two ISO 8601 forms the model's inputs use, a date
\* ("2024-07-DD", midnight UTC) and a UTC date-time ("2024-07-DDTHH:MM:SSZ"),
\* within July 2024; any other text of the model's inputs is no date.
NewDate(f) ==
    LET s      == f.text
        day    == TwoDigits(s, 9)
        hh     == TwoDigits(s, 12)
        mm     == TwoDigits(s, 15)
        ss     == TwoDigits(s, 18)
        dateOk == /\ Len(s) >= 10
                  /\ SubSeq(s, 1, 8) = <<"2", "0", "2", "4", "-", "0", "7", "-">>
                  /\ day \in 1..31
        timeOk == /\ Len(s) = 20
                  /\ s[11] = "T" /\ s[14] = ":" /\ s[17] = ":" /\ s[20] = "Z"
                  /\ hh \in 0..23 /\ mm \in 0..59 /\ ss \in 0..59
    IN  IF ~f.present THEN InvalidDate
        ELSE IF dateOk /\ Len(s) = 10 THEN Instant((day - 15) * 86400000)
        ELSE IF dateOk /\ timeOk
             THEN Instant((day - 15) * 86400000 + hh * 3600000 + mm * 60000 + ss * 1000)
        ELSE InvalidDate


\* The two characters that write n, 0 <= n <= 99.
DigitChar(d) ==
    CASE d = 0 -> "0" [] d = 1 -> "1" [] d = 2 -> "2" [] d = 3 -> "3" [] d = 4 -> "4"
      [] d = 5 -> "5" [] d = 6 -> "6" [] d = 7 -> "7" [] d = 8 -> "8" [] d = 9 -> "9"

Pad2(n) == <<DigitChar(n \div 10), DigitChar(n % 10)>>

Pad3(n) == <<DigitChar(n \div 100)>> \o Pad2(n % 100)

\* Date.prototype.toISOString, for the instants of July 2024.
toISOString(ms) ==
    LET day  == ms \div 86400000
        rest == ms % 86400000
    IN  <<"2", "0", "2", "4", "-", "0", "7", "-">> \o Pad2(15 + day) \o <<"T">>
        \o Pad2(rest \div 3600000) \o <<":">> \o Pad2((rest % 3600000) \div 60000)
        \o <<":">> \o Pad2((rest % 60000) \div 1000) \o <<".">> \o Pad3(rest % 1000)
        \o <<"Z">>

(***************************************************************************)
(* The Event schema.                                                       *)
(***************************************************************************)
\* A message of the basic validation that names the title alone.
MsgRequiredTitle ==
    <<"T", "i", "t", "l", "e", " ", "i", "s", " ", "a", " ", "r", "e", "q", "u", "i", "r", "e", "d", " ", "f", "i", "e", "l", "d", ".">>

MsgRequired ==
    <<"T", "i", "t", "l", "e", ",", " ", "d", "a", "t", "e", ",", " ", "a", "n", "d", " ", "a",
    "d", "d", "r", "e", "s", "s", " ", "a", "r", "e", " ", "r", "e", "q", "u", "i", "r", "e",
    "d", " ", "f", "i", "e", "l", "d", "s", ".">>

MsgNoGeocode ==
    <<"C", "o", "u", "l", "d", " ", "n", "o", "t", " ", "g", "e", "o", "c", "o", "d", "e", " ",
    "a", "d", "d", "r", "e", "s", "s", ".", " ", "P", "l", "e", "a", "s", "e", " ", "p", "r",
    "o", "v", "i", "d", "e", " ", "a", " ", "v", "a", "l", "i", "d", " ", "a", "d", "d", "r",
    "e", "s", "s", " ", "o", "r", " ", "c", "h", "e", "c", "k", " ", "N", "o", "m", "i", "n",
    "a", "t", "i", "m", " ", "s", "t", "a", "t", "u", "s", ".">>

MsgGeoFailed ==
    <<"F", "a", "i", "l", "e", "d", " ", "t", "o", " ", "v", "e", "r", "i", "f", "y", " ", "a",
    "d", "d", "r", "e", "s", "s", " ", "l", "o", "c", "a", "t", "i", "o", "n", ".", " ", "P",
    "l", "e", "a", "s", "e", " ", "t", "r", "y", " ", "a", "g", "a", "i", "n", " ", "o", "r",
    " ", "c", "o", "n", "t", "a", "c", "t", " ", "s", "u", "p", "p", "o", "r", "t", ".">>

MsgValidation ==
    <<"V", "a", "l", "i", "d", "a", "t", "i", "o", "n", " ", "E", "r", "r", "o", "r">>

MsgServerError ==
    <<"S", "e", "r", "v", "e", "r", " ", "e", "r", "r", "o", "r", " ", "c", "r", "e", "a", "t",
    "i", "n", "g", " ", "e", "v", "e", "n", "t", ".">>

MsgNotImage ==
    <<"N", "o", "t", " ", "a", "n", " ", "i", "m", "a", "g", "e", "!", " ", "P", "l", "e", "a",
    "s", "e", " ", "u", "p", "l", "o", "a", "d", " ", "o", "n", "l", "y", " ", "i", "m", "a",
    "g", "e", "s", ".">>

MsgTitleRequired ==
    <<"E", "v", "e", "n", "t", " ", "t", "i", "t", "l", "e", " ", "i", "s", " ", "r", "e", "q",
    "u", "i", "r", "e", "d", ".">>

MsgDateRequired ==
    <<"E", "v", "e", "n", "t", " ", "d", "a", "t", "e", " ", "i", "s", " ", "r", "e", "q", "u",
    "i", "r", "e", "d", ".">>

MsgAddressRequired ==
    <<"E", "v", "e", "n", "t", " ", "a", "d", "d", "r", "e", "s", "s", " ", "i", "s", " ", "r",
    "e", "q", "u", "i", "r", "e", "d", ".">>

MsgCoordsRequired ==
    <<"E", "v", "e", "n", "t", " ", "c", "o", "o", "r", "d", "i", "n", "a", "t", "e", "s", " ",
    "a", "r", "e", " ", "r", "e", "q", "u", "i", "r", "e", "d", " ", "a", "f", "t", "e", "r",
    " ", "g", "e", "o", "c", "o", "d", "i", "n", "g", ".">>

MsgCoordsInvalid ==
    <<"C", "o", "o", "r", "d", "i", "n", "a", "t", "e", "s", " ", "m", "u", "s", "t", " ", "b",
    "e", " ", "a", "n", " ", "a", "r", "r", "a", "y", " ", "o", "f", " ", "t", "w", "o", " ",
    "n", "u", "m", "b", "e", "r", "s", " ", "[", "l", "o", "n", "g", "i", "t", "u", "d", "e",
    ",", " ", "l", "a", "t", "i", "t", "u", "d", "e", "]", ".">>

\* The cast error of mongoose for a date that is an Invalid Date.
MsgCastDate ==
    <<"C", "a", "s", "t", " ", "t", "o", " ", "d", "a", "t", "e", " ", "f", "a", "i", "l", "e",
    "d", " ", "f", "o", "r", " ", "v", "a", "l", "u", "e", " ", "I", "n", "v", "a", "l", "i",
    "d", " ", "D", "a", "t", "e", " ", "a", "t", " ", "p", "a", "t", "h", " ", "d", "a", "t",
    "e">>

\* The validator of location.coordinates: an array of two numbers.
CoordinatesValidator(coords) ==
    Len(coords) = 2 /\ \A i \in 1..Len(coords) : coords[i].kind \in {"finite", "inf", "nan"}

\* A validation that does not cast the date.
ValidationErrorsWithoutDate(doc) ==
    (IF doc.title = <<>> THEN <<MsgTitleRequired>> ELSE <<>>)
    \o (IF doc.location.address = <<>> THEN <<MsgAddressRequired>> ELSE <<>>)
    \o (IF \E i \in 1..Len(doc.location.coordinates) : isNaN(doc.location.coordinates[i])
        THEN <<MsgCoordsInvalid>>
        ELSE IF ~CoordinatesValidator(doc.location.coordinates) THEN <<MsgCoordsInvalid>>
        ELSE <<>>)

\* Document validation against EventSchema: the messages of the failing paths,
\* in the order of the schema's paths. A Number path does not cast NaN.
ValidationErrors(doc) ==
    (IF doc.title = <<>> THEN <<MsgTitleRequired>> ELSE <<>>)
    \o (IF ~doc.date.valid THEN <<MsgCastDate>> ELSE <<>>)
    \o (IF doc.location.address = <<>> THEN <<MsgAddressRequired>> ELSE <<>>)
    \o (IF \E i \in 1..Len(doc.location.coordinates) : isNaN(doc.location.coordinates[i])
        THEN <<MsgCoordsInvalid>>
        ELSE IF ~CoordinatesValidator(doc.location.coordinates) THEN <<MsgCoordsInvalid>>
        ELSE <<>>)

\* As Persisted, for a schema whose location has no coordinates path: mongoose
\* drops what the schema does not declare.
PersistedWithoutCoordinates(doc, id) ==
    [ _id |-> id,
      title |-> doc.title,
      description |-> doc.description,
      people |-> doc.people,
      date |-> doc.date,
      location |-> [address |-> doc.location.address, coordinates |-> <<>>],
      tags |-> doc.tags,
      images |-> doc.images ]

\* The paths of EventSchema that a saved document carries, with the _id the
\* database assigns.
Persisted(doc, id) ==
    [ _id |-> id,
      title |-> doc.title,
      description |-> doc.description,
      people |-> doc.people,
      date |-> doc.date,
      location |-> [address |-> doc.location.address,
                    coordinates |-> doc.location.coordinates],
      tags |-> doc.tags,
      images |-> doc.images ]

\* A number in a JSON body: JSON.stringify writes a non-finite number as null.
JsonNumber(n) == IF n.kind = "finite" THEN n ELSE [kind |-> "null", val |-> 0]

\* res.json(event): the Event JSON of a stored document.
EventJSON(e) ==
    [ _id |-> e._id,
      title |-> e.title,
      description |-> e.description,
      people |-> e.people,
      date |-> toISOString(e.date.ms),
      location |-> [address |-> e.location.address,
                    coordinates |-> [i \in 1..Len(e.location.coordinates) |->
                                        JsonNumber(e.location.coordinates[i])]],
      tags |-> e.tags,
      images |-> e.images ]


(***************************************************************************)
(* The upload middleware: multer with disk storage.                        *)
(***************************************************************************)
\* upload.array("images", 5)
MaxCount == 5

\* limits.fileSize
FileSizeLimit == 5 * 1024 * 1024

\* The messages of multer's LIMIT_UNEXPECTED_FILE and LIMIT_FILE_SIZE errors.
MsgUnexpectedField ==
    <<"U", "n", "e", "x", "p", "e", "c", "t", "e", "d", " ", "f", "i", "e", "l", "d">>

MsgFileTooLarge ==
    <<"F", "i", "l", "e", " ", "t", "o", "o", " ", "l", "a", "r", "g", "e">>

MsgSomethingBroke ==
    <<"S", "o", "m", "e", "t", "h", "i", "n", "g", " ", "b", "r", "o", "k", "e", "!">>

\* file.originalname.replace(/[^a-zA-Z0-9.]/g, '_')
safeOriginalName(name) ==
    [i \in 1..Len(name) |-> IF name[i] \in Letters \cup Digits \cup {"."} THEN name[i] ELSE "_"]

\* The filename callback of the disk storage: `${Date.now()}-${safeOriginalName}`.
filename(file, time) == [time |-> time, name |-> safeOriginalName(file.originalname)]

fileFilter(file) == StartsWith(file.mimetype, <<"i", "m", "a", "g", "e", "/">>)

\* `/uploads/${file.filename}` for each file of req.files.
imagePaths(files) == [i \in 1..Len(files) |-> files[i].filename]

(***************************************************************************)
(* The inputs of the model.                                                *)
(***************************************************************************)
Png1 == [originalname |-> <<"a", " ", "b", ".", "p", "n", "g">>, mimetype |-> <<"i", "m", "a", "g", "e", "/", "p", "n", "g">>, size |-> 1024]

\* Another image, whose sanitized name is that of Png1.
Png2 == [originalname |-> <<"a", "_", "b", ".", "p", "n", "g">>, mimetype |-> <<"i", "m", "a", "g", "e", "/", "p", "n", "g">>, size |-> 2048]

Txt == [originalname |-> <<"n", ".", "t", "x", "t">>, mimetype |-> <<"t", "e", "x", "t", "/", "p", "l", "a", "i", "n">>, size |-> 16]

Big == [originalname |-> <<"b", "i", "g", ".", "p", "n", "g">>, mimetype |-> <<"i", "m", "a", "g", "e", "/", "p", "n", "g">>, size |-> FileSizeLimit + 1]

FileLists ==
    { <<>>, <<Png1>>, <<Png1, Png2>>, <<Txt>>, <<Png1, Big>>,
      <<Png1, Png1, Png1, Png1, Png1, Png1>> }

TitleInputs == {Undefined, Str(<<>>), Str(<<"S", "t", "a", "n", "d", "u", "p">>)}

DateInputs ==
    { Str(<<>>), Str(<<"2", "0", "2", "4", "-", "0", "7", "-", "1", "5">>), Str(<<"2", "0", "2", "4", "-", "0", "7", "-", "1", "6", "T", "1", "4", ":", "0", "0", ":", "0", "0", "Z">>), Str(<<"s", "o", "o", "n">>) }

AddressInputs == {Str(<<>>), Str(<<"1", " ", "I", "n", "f", "i", "n", "i", "t", "e", " ", "L", "o", "o", "p", ",", " ", "C", "u", "p", "e", "r", "t", "i", "n", "o">>)}

DescriptionInputs == {Undefined, Str(<<"D", "a", "i", "l", "y", " ", "s", "y", "n", "c">>)}

PeopleInputs == {Undefined, Str(<<"A", "n", "n", ",", " ", "B", "o", "b", " ", ",", ",", "A", "n", "n">>)}

TagsInputs == {Undefined, Str(<<"w", "o", "r", "k">>)}

\* The scenario of the specification: a stand-up at 1 Infinite Loop.
BasePayload ==
    [ title |-> Str(<<"S", "t", "a", "n", "d", "u", "p">>),
      description |-> Str(<<"D", "a", "i", "l", "y", " ", "s", "y", "n", "c">>),
      people |-> Str(<<"A", "n", "n", ",", " ", "B", "o", "b", " ", ",", ",", "A", "n", "n">>),
      date |-> Str(<<"2", "0", "2", "4", "-", "0", "7", "-", "1", "5">>),
      address |-> Str(<<"1", " ", "I", "n", "f", "i", "n", "i", "t", "e", " ", "L", "o", "o", "p", ",", " ", "C", "u", "p", "e", "r", "t", "i", "n", "o">>),
      tags |-> Str(<<"w", "o", "r", "k">>),
      files |-> <<>> ]

PayloadFields == {"title", "description", "people", "date", "address", "tags", "files"}

Deviations(p) == Cardinality({k \in PayloadFields : p[k] # BasePayload[k]})

\* The requests of the model: the base payload, each payload that differs from
\* it in one field, and a payload without title that carries an image.
Payloads ==
    { p \in [ title : TitleInputs, description : DescriptionInputs, people : PeopleInputs,
              date : DateInputs, address : AddressInputs, tags : TagsInputs,
              files : FileLists ] :
        \/ Deviations(p) <= 1
        \/ p.files = <<Png1>> /\ p.title = Str(<<>>) /\ Deviations(p) = 2 }

\* One candidate of a Nominatim answer.
Candidate(lat, lon) == [lat |-> lat, lon |-> lon, display_name |-> Str(<<"A", "p", "p", "l", "e", " ", "C", "a", "m", "p", "u", "s">>)]

BaseLat == Str(<<"3", "7", ".", "3", "3">>)

BaseLon == Str(<<"-", "1", "2", "2", ".", "0", "3">>)

\* lat and lon texts that are no decimal number: missing, not numeric, numeric
\* in part, infinite.
MalformedNumbers ==
    { Undefined, Str(<<"a", "b", "c">>), Str(<<"1", "2", "a", "b", "c">>), Str(<<"Infinity">>) }

\* The malformed lat texts of the model: missing and not numeric.
MalformedLat == { Undefined, Str(<<"a", "b", "c">>) }

\* What the geocoding request can end in: axios rejects (no response, or an error
\* status), or resolves with a body: null, or an array of at most one candidate.
GeoOutcomes ==
    { [kind |-> "unreachable", data |-> <<>>],
      [kind |-> "status", data |-> <<>>],
      [kind |-> "null", data |-> <<>>],
      [kind |-> "array", data |-> <<>>] }
    \cup { [kind |-> "array", data |-> <<Candidate(BaseLat, BaseLon)>>] }
    \cup { [kind |-> "array", data |-> <<Candidate(m, BaseLon)>>] : m \in MalformedLat }
    \cup { [kind |-> "array", data |-> <<Candidate(BaseLat, m)>>] : m \in MalformedNumbers }
\* The dummy events of seedDatabase, as handed to insertMany.
dummyEvents ==
    <<
      [ title |-> <<"T", "e", "a", "m", " ", "M", "e", "e", "t", "i", "n", "g", " ", "@", " ", "A", "p", "p",
            "l", "e", " ", "P", "a", "r", "k">>,
        description |-> <<"W", "e", "e", "k", "l", "y", " ", "s", "y", "n", "c", " ", "m", "e", "e", "t", "i", "n",
            "g", " ", "t", "o", " ", "d", "i", "s", "c", "u", "s", "s", " ", "p", "r", "o", "j", "e",
            "c", "t", " ", "p", "r", "o", "g", "r", "e", "s", "s", " ", "a", "n", "d", " ", "b", "l",
            "o", "c", "k", "e", "r", "s", ".">>,
        people |-> <<<<"A", "l", "i", "c", "e">>, <<"B", "o", "b">>>>,
        date |-> [valid |-> TRUE, ms |-> 36000000],
        location |-> [ address |-> <<"A", "p", "p", "l", "e", " ", "P", "a", "r", "k", " ", "V", "i", "s", "i", "t", "o", "r",
            " ", "C", "e", "n", "t", "e", "r", ",", " ", "1", "0", "6", "0", "0", " ", "N", " ", "T",
            "a", "n", "t", "a", "u", " ", "A", "v", "e", ",", " ", "C", "u", "p", "e", "r", "t", "i",
            "n", "o", ",", " ", "C", "A", " ", "9", "5", "0", "1", "4", ",", " ", "U", "S", "A">>,
                       coordinates |-> <<Num(-1220099), Num(373328)>> ],
        tags |-> <<<<"w", "o", "r", "k">>, <<"p", "l", "a", "n", "n", "i", "n", "g">>>>,
        images |-> <<>> ],
      [ title |-> <<"P", "r", "o", "j", "e", "c", "t", " ", "L", "a", "u", "n", "c", "h", " ", "P", "a", "r",
            "t", "y", " ", "@", " ", "E", "i", "f", "f", "e", "l", " ", "T", "o", "w", "e", "r">>,
        description |-> <<"C", "e", "l", "e", "b", "r", "a", "t", "i", "n", "g", " ", "t", "h", "e", " ", "s", "u",
            "c", "c", "e", "s", "s", "f", "u", "l", " ", "l", "a", "u", "n", "c", "h", " ", "o", "f",
            " ", "P", "r", "o", "j", "e", "c", "t", " ", "P", "h", "o", "e", "n", "i", "x", "!">>,
        people |-> <<<<"C", "h", "a", "r", "l", "i", "e">>, <<"D", "a", "n", "a">>, <<"E", "v", "e">>>>,
        date |-> [valid |-> TRUE, ms |-> 66600000],
        location |-> [ address |-> <<"E", "i", "f", "f", "e", "l", " ", "T", "o", "w", "e", "r", ",", " ", "C", "h", "a", "m",
            "p", " ", "d", "e", " ", "M", "a", "r", "s", ",", " ", "5", " ", "A", "v", ".", " ", "A",
            "n", "a", "t", "o", "l", "e", " ", "F", "r", "a", "n", "c", "e", ",", " ", "7", "5", "0",
            "0", "7", " ", "P", "a", "r", "i", "s", ",", " ", "F", "r", "a", "n", "c", "e">>,
                       coordinates |-> <<Num(22945), Num(488584)>> ],
        tags |-> <<<<"c", "e", "l", "e", "b", "r", "a", "t", "i", "o", "n">>, <<"s", "o", "c", "i", "a", "l">>, <<"p", "a", "r", "i", "s">>>>,
        images |-> <<>> ],
      [ title |-> <<"C", "o", "n", "f", "e", "r", "e", "n", "c", "e", " ", "T", "a", "l", "k", " ", "@", " ",
            "M", "o", "s", "c", "o", "n", "e", " ", "C", "e", "n", "t", "e", "r">>,
        description |-> <<"P", "r", "e", "s", "e", "n", "t", "i", "n", "g", " ", "o", "n", " ", "t", "h", "e", " ",
            "f", "u", "t", "u", "r", "e", " ", "o", "f", " ", "W", "e", "b", " ", "A", "P", "I", "s",
            " ", "a", "t", " ", "t", "h", "e", " ", "a", "n", "n", "u", "a", "l", " ", "T", "e", "c",
            "h", "C", "o", "n", "f", ".">>,
        people |-> <<<<"B", "o", "b">>>>,
        date |-> [valid |-> TRUE, ms |-> 136800000],
        location |-> [ address |-> <<"M", "o", "s", "c", "o", "n", "e", " ", "C", "e", "n", "t", "e", "r", ",", " ", "7", "4",
            "7", " ", "H", "o", "w", "a", "r", "d", " ", "S", "t", ",", " ", "S", "a", "n", " ", "F",
            "r", "a", "n", "c", "i", "s", "c", "o", ",", " ", "C", "A", " ", "9", "4", "1", "0", "3",
            ",", " ", "U", "S", "A">>,
                       coordinates |-> <<Num(-1224013), Num(377837)>> ],
        tags |-> <<<<"c", "o", "n", "f", "e", "r", "e", "n", "c", "e">>, <<"t", "e", "c", "h">>, <<"s", "f">>>>,
        images |-> <<>> ],
      [ title |-> <<"C", "e", "n", "t", "r", "a", "l", " ", "P", "a", "r", "k", " ", "P", "i", "c", "n", "i",
            "c">>,
        description |-> <<"C", "a", "s", "u", "a", "l", " ", "g", "e", "t", "-", "t", "o", "g", "e", "t", "h", "e",
            "r", " ", "i", "n", " ", "t", "h", "e", " ", "p", "a", "r", "k", ".", " ", "B", "r", "i",
            "n", "g", " ", "s", "n", "a", "c", "k", "s", "!">>,
        people |-> <<<<"A", "l", "i", "c", "e">>, <<"C", "h", "a", "r", "l", "i", "e">>>>,
        date |-> [valid |-> TRUE, ms |-> 216000000],
        location |-> [ address |-> <<"S", "h", "e", "e", "p", " ", "M", "e", "a", "d", "o", "w", ",", " ", "C", "e", "n", "t",
            "r", "a", "l", " ", "P", "a", "r", "k", ",", " ", "N", "e", "w", " ", "Y", "o", "r", "k",
            ",", " ", "N", "Y", " ", "1", "0", "0", "2", "4", ",", " ", "U", "S", "A">>,
                       coordinates |-> <<Num(-739742), Num(407749)>> ],
        tags |-> <<<<"s", "o", "c", "i", "a", "l">>, <<"p", "a", "r", "k">>, <<"n", "y", "c">>>>,
        images |-> <<>> ]
    >>

(***************************************************************************)
(* Responses.                                                              *)
(***************************************************************************)
\* A JSON response: its status, the keys of its body and their values; event
\* holds the Event JSON of a 201 response.
Response(status, keys, message, errors, error, stack, event) ==
    [ status |-> status, keys |-> keys, message |-> message, errors |-> errors,
      error |-> error, stack |-> stack, event |-> event ]

\* res.status(s).json({ message })
Message(status, message) == Response(status, {"message"}, message, <<>>, <<>>, FALSE, <<>>)

\* The message of an error the database driver raises.
MsgStorage ==
    <<"c", "o", "n", "n", "e", "c", "t", "i", "o", "n", " ", "c", "l", "o", "s", "e", "d">>

\* The global error handler: err.status || 500, err.message, and err.stack in
\* development. The errors of the upload middleware carry no status.
GlobalErrorHandler(message, env) ==
    Response(500,
             IF env = "development" THEN {"message", "stack"} ELSE {"message"},
             IF message = <<>> THEN MsgSomethingBroke ELSE message,
             <<>>, <<>>, env = "development", <<>>)

(***************************************************************************)
(* The state.                                                              *)
(***************************************************************************)
NoBody ==
    [ title |-> Undefined, description |-> Undefined, people |-> Undefined,
      date |-> Undefined, address |-> Undefined, tags |-> Undefined, files |-> <<>> ]

NewRequest ==
    [ pc |-> "new",         \* "new", "upload", "geocoding", "saving", "done"
      body |-> NoBody,      \* the multipart form: the text fields and the files sent
      files |-> <<>>,       \* req.files: the uploads stored so far
      geocoded |-> FALSE,   \* the Nominatim request was issued
      geo |-> <<>>,         \* what the Nominatim request ended in
      newEvent |-> <<>>,    \* the document under construction
      res |-> <<>> ]        \* the response sent

NotParsed == [people |-> <<>>, tags |-> <<>>, peopleDone |-> FALSE, tagsDone |-> FALSE]

\* The states of the parts of the program that a specification leaves at rest:
\* the server before its start, no GET request answered, the page and the form
\* as their useState calls make them.
ServerIdle ==
    /\ store = <<>>
    /\ nextId = 1
    /\ seed = "start"
    /\ req = [r \in Requests |-> NewRequest]
    /\ disk = <<>>
    /\ now = 0
    /\ nodeEnv = "production"

ParseIdle == text = Undefined /\ parsed = NotParsed

FindIdle == get = <<>>

ClientIdle ==
    /\ tz = 0
    /\ loading = TRUE
    /\ allEvents = <<>>
    /\ selectedDate = <<>>
    /\ filters = [title |-> <<>>, people |-> <<>>, tags |-> <<>>]
    /\ pageError = <<>>

FormIdle ==
    /\ address = <<>>
    /\ addressSuggestions = <<>>
    /\ loadingSuggestions = FALSE
    /\ formError = <<>>
    /\ timeout = <<>>
    /\ clock = 0
    /\ typed = <<>>
    /\ sent = <<>>

Init ==
    /\ store = <<>>
    /\ nextId = 1
    /\ seed = "start"
    /\ req = [r \in Requests |-> NewRequest]
    /\ disk = <<>>
    /\ now = 0
    /\ nodeEnv \in {"development", "production"}
    /\ text = Undefined
    /\ parsed = NotParsed
    /\ FindIdle /\ ClientIdle /\ FormIdle

(***************************************************************************)
(* seedDatabase, run once after the connection is made.                    *)
(***************************************************************************)
\* await Event.countDocuments()
SeedCount ==
    /\ seed = "start"
    /\ seed' = IF Len(store) = 0 THEN "counted0" ELSE "done"
    /\ UNCHANGED <<store, nextId, req, disk, now, nodeEnv>>
    /\ UNCHANGED <<parseVars, findVars, clientVars, formVars>>

\* An insertMany into a collection emptied first.
insertManyReplacing(docs, coll, id) ==
    IF \A i \in 1..Len(docs) : ValidationErrors(docs[i]) = <<>>
    THEN [i \in 1..Len(docs) |-> Persisted(docs[i], id + i - 1)]
    ELSE <<>>

\* insertMany validates every document and inserts them all, or inserts none.
insertMany(docs, coll, id) ==
    IF \A i \in 1..Len(docs) : ValidationErrors(docs[i]) = <<>>
    THEN coll \o [i \in 1..Len(docs) |-> Persisted(docs[i], id + i - 1)]
    ELSE coll

\* await Event.insertMany(dummyEvents); an error of the database is logged.
SeedInsert ==
    /\ seed = "counted0"
    /\ seed' = "done"
    /\ \E dbOk \in BOOLEAN :
          store' = IF dbOk THEN insertMany(dummyEvents, store, nextId) ELSE store
    /\ nextId' = nextId + (Len(store') - Len(store))
    /\ UNCHANGED <<req, disk, now, nodeEnv>>
    /\ UNCHANGED <<parseVars, findVars, clientVars, formVars>>

(***************************************************************************)
(* POST /api/events.                                                       *)
(***************************************************************************)
\* A request arrives: its multipart form is one of the model's payloads.
Arrive(r) ==
    /\ req[r].pc = "new"
    /\ \E p \in Payloads : req' = [req EXCEPT ![r].pc = "upload", ![r].body = p]
    /\ UNCHANGED <<store, nextId, seed, disk, now, nodeEnv>>
    /\ UNCHANGED <<parseVars, findVars, clientVars, formVars>>

\* The uploads directory with the file at path f written by request r.
WriteFile(d, f, r, i) ==
    [p \in (DOMAIN d) \cup {f} |-> IF p = f THEN [request |-> r, index |-> i] ELSE d[p]]

\* The uploads directory with the paths of fs removed.
RemoveFiles(d, fs) ==
    [p \in (DOMAIN d) \ {fs[i].filename : i \in 1..Len(fs)} |-> d[p]]

\* multer takes the next file of the form, at a time Date.now() that is not
\* before the last one read. A file beyond the fifth, a file that
\* is no image and a file over the size limit abort the upload: multer removes
\* the files this request stored and passes the error on, past the route, to the
\* global error handler. Any other file is written under its filename.
UploadFile(r) ==
    /\ req[r].pc = "upload"
    /\ Len(req[r].files) < Len(req[r].body.files)
    /\ \E t \in now..MaxClock : now' = t
    /\ LET i    == Len(req[r].files) + 1
           file == req[r].body.files[i]
           name == filename(file, now')
           err  == IF i > MaxCount THEN MsgUnexpectedField
                   ELSE IF ~fileFilter(file) THEN MsgNotImage
                   ELSE IF file.size > FileSizeLimit THEN MsgFileTooLarge
                   ELSE <<>>
       IN  IF err # <<>>
           THEN /\ disk' = RemoveFiles(disk, req[r].files)
                /\ req' = [req EXCEPT ![r].pc = "done",
                                      ![r].files = <<>>,
                                      ![r].res = <<GlobalErrorHandler(err, nodeEnv)>>]
           ELSE /\ disk' = WriteFile(disk, name, r, i)
                /\ req' = [req EXCEPT ![r].files =
                              Append(@, [filename |-> name, size |-> file.size])]
    /\ UNCHANGED <<store, nextId, seed, nodeEnv>>
    /\ UNCHANGED <<parseVars, findVars, clientVars, formVars>>

\* The people text split and trimmed, the empty pieces left in.
peopleArrayUnfiltered(people) ==
    IF Falsy(people) THEN <<>>
    ELSE LET pieces == Split(people.text, ",")
         IN  [i \in 1..Len(pieces) |-> Trim(pieces[i])]

\* The tags text split and filtered, the pieces not trimmed.
tagsArrayUntrimmed(tags) ==
    IF Falsy(tags) THEN <<>>
    ELSE LET NonEmpty(p) == p # <<>>
         IN  SelectSeq(Split(tags.text, ","), NonEmpty)

\* people ? people.split(",").map(p => p.trim()).filter(p => p) : []
peopleArray(people) ==
    IF Falsy(people) THEN <<>>
    ELSE LET pieces  == Split(people.text, ",")
             trimmed == [i \in 1..Len(pieces) |-> Trim(pieces[i])]
             NonEmpty(p) == p # <<>>
         IN  SelectSeq(trimmed, NonEmpty)

\* tags ? tags.split(",").map(t => t.trim()).filter(t => t) : []
tagsArray(tags) ==
    IF Falsy(tags) THEN <<>>
    ELSE LET pieces  == Split(tags.text, ",")
             trimmed == [i \in 1..Len(pieces) |-> Trim(pieces[i])]
             NonEmpty(t) == t # <<>>
         IN  SelectSeq(trimmed, NonEmpty)

\* A basic validation that looks at the title alone.
MissingTitle(b) == Falsy(b.title)

\* The basic validation of the handler.
MissingRequired(b) == Falsy(b.title) \/ Falsy(b.date) \/ Falsy(b.address)

\* The handler runs once the form is read: the basic validation, then the
\* request to Nominatim with q = address.
Handle(r) ==
    /\ req[r].pc = "upload"
    /\ Len(req[r].files) = Len(req[r].body.files)
    /\ IF MissingRequired(req[r].body)
       THEN req' = [req EXCEPT ![r].pc = "done", ![r].res = <<Message(400, MsgRequired)>>]
       ELSE req' = [req EXCEPT ![r].pc = "geocoding", ![r].geocoded = TRUE]
    /\ UNCHANGED <<store, nextId, seed, disk, now, nodeEnv>>
    /\ UNCHANGED <<parseVars, findVars, clientVars, formVars>>

\* coordinates = [longitude, latitude] of the first candidate.
coordinates(candidate) == <<parseFloat(candidate.lon), parseFloat(candidate.lat)>>

\* new Event({...}) of the handler.
newEvent(b, files, coords) ==
    [ title |-> b.title.text,
      description |-> IF Falsy(b.description) THEN <<>> ELSE b.description.text,
      people |-> peopleArray(b.people),
      date |-> NewDate(b.date),
      location |-> [address |-> b.address.text, coordinates |-> coords],
      tags |-> tagsArray(b.tags),
      images |-> imagePaths(files) ]

\* The answer without candidates answered as a server error.
noResultsServerError == Message(500, MsgNoGeocode)

\* The response to an answer of Nominatim without data or without candidates.
noResults == Message(400, MsgNoGeocode)

\* The response of the catch around the geocoding.
geoError == Message(500, MsgGeoFailed)

\* The request q after the geocoding ended in g. No data and no candidate end
\* the request with noResults; a rejected request and coordinates that parse to
\* NaN throw into the catch; otherwise the event is built and save() called.
afterGeocoding(q, g) ==
    LET failed == g.kind \in {"unreachable", "status"}
        empty  == g.kind = "null" \/ Len(g.data) = 0
        coords == coordinates(g.data[1])
    IN  IF failed
        THEN [q EXCEPT !.pc = "done", !.geo = <<g>>, !.res = <<geoError>>]
        ELSE IF empty
        THEN [q EXCEPT !.pc = "done", !.geo = <<g>>, !.res = <<noResults>>]
        ELSE IF isNaN(coords[1]) \/ isNaN(coords[2])
        THEN [q EXCEPT !.pc = "done", !.geo = <<g>>, !.res = <<geoError>>]
        ELSE [q EXCEPT !.pc = "saving", !.geo = <<g>>,
                       !.newEvent = <<newEvent(q.body, q.files, coords)>>]

\* A handler that stores the event before it geocodes the address and leaves it
\* in the store when the geocoding yields no coordinates.
GeocodeReturnDraftKept(r) ==
    /\ req[r].pc = "geocoding"
    /\ \E g \in GeoOutcomes :
          /\ req' = [req EXCEPT ![r] = afterGeocoding(req[r], g)]
          /\ IF req'[r].pc = "done"
             THEN /\ store' = Append(store,
                                 Persisted(newEvent(req[r].body, req[r].files, <<>>), nextId))
                  /\ nextId' = nextId + 1
             ELSE UNCHANGED <<store, nextId>>
    /\ UNCHANGED <<seed, disk, now, nodeEnv>>
    /\ UNCHANGED <<parseVars, findVars, clientVars, formVars>>

\* The answer of Nominatim arrives, or the request fails.
GeocodeReturn(r) ==
    /\ req[r].pc = "geocoding"
    /\ \E g \in GeoOutcomes : req' = [req EXCEPT ![r] = afterGeocoding(req[r], g)]
    /\ UNCHANGED <<store, nextId, seed, disk, now, nodeEnv>>
    /\ UNCHANGED <<parseVars, findVars, clientVars, formVars>>

\* A save that inserts the document although the database reports an error.
SaveDespiteDatabaseError(r) ==
    /\ req[r].pc = "saving"
    /\ LET doc  == req[r].newEvent[1]
           errs == ValidationErrors(doc)
       IN  \E dbOk \in BOOLEAN :
              IF errs # <<>>
              THEN /\ req' = [req EXCEPT ![r].pc = "done",
                                 ![r].res = <<Response(400, {"message", "errors"},
                                               MsgValidation, errs, <<>>, FALSE, <<>>)>>]
                   /\ UNCHANGED <<store, nextId>>
              ELSE IF ~dbOk
              THEN /\ store' = Append(store, Persisted(doc, nextId))
                   /\ nextId' = nextId + 1
                   /\ req' = [req EXCEPT ![r].pc = "done",
                                 ![r].res = <<Response(500, {"message", "error"},
                                               MsgServerError, <<>>, MsgStorage, FALSE, <<>>)>>]
              ELSE /\ store' = Append(store, Persisted(doc, nextId))
                   /\ nextId' = nextId + 1
                   /\ req' = [req EXCEPT ![r].pc = "done",
                                 ![r].res = <<Response(201, {"event"}, <<>>, <<>>, <<>>, FALSE,
                                               <<EventJSON(Persisted(doc, nextId))>>)>>]
    /\ UNCHANGED <<seed, disk, now, nodeEnv>>
    /\ UNCHANGED <<parseVars, findVars, clientVars, formVars>>

\* await newEvent.save(): the document is validated, then inserted. A
\* ValidationError is answered with 400 and its messages, an error of the
\* database with 500, the saved event with 201.
Save(r) ==
    /\ req[r].pc = "saving"
    /\ LET doc  == req[r].newEvent[1]
           errs == ValidationErrors(doc)
       IN  \E dbOk \in BOOLEAN :
              IF errs # <<>>
              THEN /\ req' = [req EXCEPT ![r].pc = "done",
                                 ![r].res = <<Response(400, {"message", "errors"},
                                               MsgValidation, errs, <<>>, FALSE, <<>>)>>]
                   /\ UNCHANGED <<store, nextId>>
              ELSE IF ~dbOk
              THEN /\ req' = [req EXCEPT ![r].pc = "done",
                                 ![r].res = <<Response(500, {"message", "error"},
                                               MsgServerError, <<>>, MsgStorage, FALSE, <<>>)>>]
                   /\ UNCHANGED <<store, nextId>>
              ELSE /\ store' = Append(store, Persisted(doc, nextId))
                   /\ nextId' = nextId + 1
                   /\ req' = [req EXCEPT ![r].pc = "done",
                                 ![r].res = <<Response(201, {"event"}, <<>>, <<>>, <<>>, FALSE,
                                               <<EventJSON(Persisted(doc, nextId))>>)>>]
    /\ UNCHANGED <<seed, disk, now, nodeEnv>>
    /\ UNCHANGED <<parseVars, findVars, clientVars, formVars>>

(***************************************************************************)
(* GET /api/events.                                                        *)
(***************************************************************************)
Lower(c) ==
    CASE c = "A" -> "a"
      [] c = "B" -> "b"
      [] c = "C" -> "c"
      [] c = "D" -> "d"
      [] c = "E" -> "e"
      [] c = "F" -> "f"
      [] c = "G" -> "g"
      [] c = "H" -> "h"
      [] c = "I" -> "i"
      [] c = "J" -> "j"
      [] c = "K" -> "k"
      [] c = "L" -> "l"
      [] c = "M" -> "m"
      [] c = "N" -> "n"
      [] c = "O" -> "o"
      [] c = "P" -> "p"
      [] c = "Q" -> "q"
      [] c = "R" -> "r"
      [] c = "S" -> "s"
      [] c = "T" -> "t"
      [] c = "U" -> "u"
      [] c = "V" -> "v"
      [] c = "W" -> "w"
      [] c = "X" -> "x"
      [] c = "Y" -> "y"
      [] c = "Z" -> "z"
      [] OTHER -> c

\* String.prototype.toLowerCase and includes.
toLowerCase(s) == [i \in 1..Len(s) |-> Lower(s[i])]

includes(s, part) == \E k \in 0..(Len(s) - Len(part)) : SubSeq(s, k + 1, k + Len(part)) = part

\* new RegExp(search, "i") throws for a pattern that does not compile; of the
\* characters of the model's search terms, a parenthesis that is not closed.
RegExpCompiles(p) ==
    Cardinality({i \in 1..Len(p) : p[i] = "("}) = Cardinality({i \in 1..Len(p) : p[i] = ")"})

\* searchRegex.test(s), for patterns of literal characters and the wildcard ".":
\* the pattern matches somewhere in s, letters compared without case.
RegExpTest(p, s) ==
    \E k \in 0..(Len(s) - Len(p)) :
        \A i \in 1..Len(p) : p[i] = "." \/ Lower(p[i]) = Lower(s[k + i])

\* The $or of the query: the regex matches the title, the description, an entry
\* of people, an entry of tags or the address.
MatchesSearch(e, p) ==
    \/ RegExpTest(p, e.title)
    \/ RegExpTest(p, e.description)
    \/ \E i \in 1..Len(e.people) : RegExpTest(p, e.people[i])
    \/ \E i \in 1..Len(e.tags) : RegExpTest(p, e.tags[i])
    \/ RegExpTest(p, e.location.address)

\* setUTCHours(0, 0, 0, 0) and setUTCHours(23, 59, 59, 999) of an instant.
startOfDayUTC(ms) == ms - (ms % 86400000)

endOfDayUTC(ms) == startOfDayUTC(ms) + 86399999

\* A date filter under which a date that is no date matches no document.
MatchesDateStrict(e, date) ==
    /\ NewDate(date).valid
    /\ e.date.ms >= startOfDayUTC(NewDate(date).ms)
    /\ e.date.ms <= endOfDayUTC(NewDate(date).ms)

\* query.date = { $gte: startDate, $lte: endDate }; a date that is no date is
\* ignored.
MatchesDate(e, date) ==
    \/ ~NewDate(date).valid
    \/ /\ e.date.ms >= startOfDayUTC(NewDate(date).ms)
       /\ e.date.ms <= endOfDayUTC(NewDate(date).ms)

Matches(e, query) ==
    /\ Falsy(query.search) \/ MatchesSearch(e, query.search.text)
    /\ Falsy(query.date) \/ MatchesDate(e, query.date)

\* sort({ date: -1 }): the documents by date, the latest first; documents of one
\* date stay in the order of the collection.
RECURSIVE sortByDateDesc(_)
sortByDateDesc(docs) ==
    IF docs = <<>> THEN <<>>
    ELSE LET last   == docs[Len(docs)]
             sorted == sortByDateDesc(SubSeq(docs, 1, Len(docs) - 1))
             Before(e) == e.date.ms >= last.date.ms
             After(e)  == e.date.ms < last.date.ms
         IN  SelectSeq(sorted, Before) \o <<last>> \o SelectSeq(sorted, After)

\* A find that returns the latest matching document alone, as with limit(1).
findLatest(query, coll) ==
    LET Selected(e) == Matches(e, query)
    IN  SubSeq(sortByDateDesc(SelectSeq(coll, Selected)), 1, 1)

\* A find without the sort: the matching documents in the order of the
\* collection.
findUnsorted(query, coll) ==
    LET Selected(e) == Matches(e, query)
    IN  SelectSeq(coll, Selected)

\* Event.find(query).sort({ date: -1 })
find(query, coll) ==
    LET Selected(e) == Matches(e, query)
    IN  sortByDateDesc(SelectSeq(coll, Selected))

\* A request without search and without date.
NoQuery == [search |-> Undefined, date |-> Undefined]

MsgFetchError ==
    <<"S", "e", "r", "v", "e", "r", " ", "e", "r", "r", "o", "r", " ", "f", "e", "t", "c", "h", "i", "n", "g", " ", "e", "v", "e", "n", "t", "s", ".">>

\* The response of GET /api/events: the matching events as JSON, or 500 when the
\* search term does not compile or the database fails.
getEvents(query, coll, dbOk) ==
    IF (~Falsy(query.search) /\ ~RegExpCompiles(query.search.text)) \/ ~dbOk
    THEN [status |-> 500, message |-> MsgFetchError, events |-> <<>>]
    ELSE [status |-> 200, message |-> <<>>,
          events |-> [i \in 1..Len(find(query, coll)) |-> EventJSON(find(query, coll)[i])]]

(***************************************************************************)
(* GET /api/events over the contents the collection can have.              *)
(***************************************************************************)
\* The bodies of four accepted POST requests, the documents the handler stores
\* for them, and the collections that hold at most n of these documents: the
\* document at position i has the _id i.
StoredBodies ==
    << [ title |-> Str(<<"S", "t", "a", "n", "d", "u", "p">>), description |-> Str(<<>>),
         people |-> Str(<<"A", "n", "n", ",", " ", "B", "o", "b">>), date |-> Str(<<"2", "0", "2", "4", "-", "0", "7", "-", "1", "5", "T", "1", "0", ":", "0", "0", ":", "0", "0", "Z">>),
         address |-> Str(<<"1", " ", "I", "n", "f", "i", "n", "i", "t", "e", " ", "L", "o", "o", "p">>), tags |-> Str(<<"w", "o", "r", "k">>), files |-> <<>> ],
       [ title |-> Str(<<"L", "u", "n", "c", "h">>), description |-> Str(<<"w", "i", "t", "h", " ", "A", "n", "n">>),
         people |-> Str(<<"B", "o", "b">>), date |-> Str(<<"2", "0", "2", "4", "-", "0", "7", "-", "1", "5", "T", "2", "3", ":", "5", "9", ":", "5", "9", "Z">>),
         address |-> Str(<<"M", "a", "i", "n", " ", "S", "t">>), tags |-> Undefined, files |-> <<>> ],
       [ title |-> Str(<<"P", "a", "r", "t", "y">>), description |-> Undefined,
         people |-> Undefined, date |-> Str(<<"2", "0", "2", "4", "-", "0", "7", "-", "1", "6">>),
         address |-> Str(<<"A", "n", "n", " ", "A", "r", "b", "o", "r">>), tags |-> Str(<<"f", "u", "n", ",", " ", "w", "o", "r", "k">>), files |-> <<>> ],
       [ title |-> Str(<<"r", "e", "v", "i", "e", "w">>), description |-> Str(<<>>),
         people |-> Str(<<"a", "n", "n">>), date |-> Str(<<"2", "0", "2", "4", "-", "0", "7", "-", "1", "4", "T", "2", "2", ":", "3", "0", ":", "0", "0", "Z">>),
         address |-> Str(<<"L", "o", "o", "p", " ", "2">>), tags |-> Str(<<"W", "o", "r", "k">>), files |-> <<>> ] >>

StoredDoc(k, id) ==
    Persisted(newEvent(StoredBodies[k], <<>>, coordinates(Candidate(BaseLat, BaseLon))), id)

Collections(n) ==
    UNION { { [i \in 1..len |-> StoredDoc(pick[i], i)] : pick \in [1..len -> 1..Len(StoredBodies)] }
            : len \in 0..n }

\* req.query of the model's GET requests.
SearchInputs ==
    {Undefined, Str(<<>>), Str(<<"a", "n", "n">>), Str(<<"A", "N">>), Str(<<".">>), Str(<<"(">>), Str(<<"w", ".", "r", "k">>)}

DateFilterInputs == {Undefined, Str(<<>>), Str(<<"2", "0", "2", "4", "-", "0", "7", "-", "1", "5">>), Str(<<"2", "0", "2", "4", "-", "0", "7", "-", "1", "6", "T", "1", "4", ":", "0", "0", ":", "0", "0", "Z">>), Str(<<"s", "o", "o", "n">>)}

Queries == [search : SearchInputs, date : DateFilterInputs]

\* The server at work on a collection of the model, no request answered yet.
ServerAt(n) ==
    /\ store \in Collections(n)
    /\ nextId = Len(store) + 1
    /\ seed = "done"
    /\ req = [r \in Requests |-> NewRequest]
    /\ disk = <<>>
    /\ now = 0
    /\ nodeEnv = "production"

InitFind ==
    /\ ServerAt(MaxStored)
    /\ ParseIdle /\ FindIdle /\ ClientIdle /\ FormIdle

\* app.get("/api/events"): one request, answered from the collection.
GetEvents ==
    \E query \in Queries, dbOk \in BOOLEAN :
        /\ get = <<>>
        /\ get' = <<[query |-> query, dbOk |-> dbOk, res |-> getEvents(query, store, dbOk)]>>
        /\ UNCHANGED <<serverVars, parseVars, clientVars, formVars>>

NextFind == GetEvents

SpecFind == InitFind /\ [][NextFind]_vars

(***************************************************************************)
(* The parsing of the people and tags texts on their own.                  *)
(***************************************************************************)
ListAlphabet == {"a", "b", ",", " "}

\* The texts of at most n characters.
Texts(n) == UNION { [1..k -> ListAlphabet] : k \in 0..n }

InitParse ==
    /\ store = <<>>
    /\ nextId = 1
    /\ seed = "start"
    /\ req = [r \in Requests |-> NewRequest]
    /\ disk = <<>>
    /\ now = 0
    /\ nodeEnv = "production"
    /\ text \in {Undefined} \cup {Str(s) : s \in Texts(MaxLen)}
    /\ parsed = NotParsed
    /\ FindIdle /\ ClientIdle /\ FormIdle

ParsePeople ==
    /\ ~parsed.peopleDone
    /\ parsed' = [parsed EXCEPT !.people = peopleArray(text), !.peopleDone = TRUE]
    /\ UNCHANGED <<serverVars, text, findVars, clientVars, formVars>>

ParseTags ==
    /\ ~parsed.tagsDone
    /\ parsed' = [parsed EXCEPT !.tags = tagsArray(text), !.tagsDone = TRUE]
    /\ UNCHANGED <<serverVars, text, findVars, clientVars, formVars>>

NextParse == ParsePeople \/ ParseTags

SpecParse == InitParse /\ [][NextParse]_vars

(***************************************************************************)
(* The map and timeline page of the client.                                *)
(***************************************************************************)
\* The characters of the model's texts in the order of their UTF-16 code
\* units, which is the order of Array.prototype.sort() without a comparator.
CodeUnits ==
    <<" ", "(", ")", ",", "-", ".", "0", "1", "2", "3", "4", "5", "6", "7", "8", "9", ":", "@",
      "A", "B", "C", "D", "E", "F", "G", "H", "I", "J", "K", "L", "M", "N", "O", "P", "Q", "R",
      "S", "T", "U", "V", "W", "X", "Y", "Z", "_",
      "a", "b", "c", "d", "e", "f", "g", "h", "i", "j", "k", "l", "m", "n", "o", "p", "q", "r",
      "s", "t", "u", "v", "w", "x", "y", "z">>

charCodeAt(c) == CHOOSE i \in 1..Len(CodeUnits) : CodeUnits[i] = c

\* a < b for strings: by the first code unit in which they differ, a proper
\* prefix first.
RECURSIVE StringLess(_, _)
StringLess(a, b) ==
    IF b = <<>> THEN FALSE
    ELSE IF a = <<>> THEN TRUE
    ELSE IF a[1] # b[1] THEN charCodeAt(a[1]) < charCodeAt(b[1])
    ELSE StringLess(Tail(a), Tail(b))

\* array.sort() of strings.
RECURSIVE sort(_)
sort(a) ==
    IF a = <<>> THEN <<>>
    ELSE LET last   == a[Len(a)]
             sorted == sort(SubSeq(a, 1, Len(a) - 1))
             Before(x) == ~StringLess(last, x)
             After(x)  == StringLess(last, x)
         IN  SelectSeq(sorted, Before) \o <<last>> \o SelectSeq(sorted, After)

\* [...new Set(a)]: the values of a, each once, in the order of their first
\* occurrence.
RECURSIVE SetOf(_)
SetOf(a) ==
    IF a = <<>> THEN <<>>
    ELSE LET first == SetOf(SubSeq(a, 1, Len(a) - 1))
             last  == a[Len(a)]
         IN  IF \E i \in 1..Len(first) : first[i] = last THEN first ELSE Append(first, last)

\* The arrays of a flatMap, one per event, made one array.
RECURSIVE flat(_)
flat(arrays) ==
    IF arrays = <<>> THEN <<>> ELSE Head(arrays) \o flat(Tail(arrays))

\* The number written by the three characters of s at i, or -1.
ThreeDigits(s, i) ==
    IF Len(s) >= i + 2 /\ s[i] \in Digits /\ s[i + 1] \in Digits /\ s[i + 2] \in Digits
    THEN 100 * DigitVal(s[i]) + 10 * DigitVal(s[i + 1]) + DigitVal(s[i + 2])
    ELSE -1

\* parseISO(text) of date-fns for the form in which the server writes a date,
\* "2024-07-DDTHH:MM:SS.mmmZ"; an Invalid Date for any other text.
parseISO(s) ==
    LET day == TwoDigits(s, 9)
        hh  == TwoDigits(s, 12)
        mm  == TwoDigits(s, 15)
        ss  == TwoDigits(s, 18)
        ms  == ThreeDigits(s, 21)
    IN  IF /\ Len(s) = 24
           /\ SubSeq(s, 1, 8) = <<"2", "0", "2", "4", "-", "0", "7", "-">>
           /\ s[11] = "T" /\ s[14] = ":" /\ s[17] = ":" /\ s[20] = "." /\ s[24] = "Z"
           /\ day \in 1..31 /\ hh \in 0..23 /\ mm \in 0..59 /\ ss \in 0..59 /\ ms \in 0..999
        THEN Instant((day - 15) * 86400000 + hh * 3600000 + mm * 60000 + ss * 1000 + ms)
        ELSE InvalidDate

\* startOfDay(date) of date-fns: date.setHours(0, 0, 0, 0), midnight of the
\* day of the instant in the time zone of the browser.
startOfDay(ms) == ms - ((ms + tz) % 86400000)

\* The events of a response with their dates parsed; events without a valid
\* date are left out.
eventsWithDates(data) ==
    LET WithDate(e) == [e EXCEPT !.date = parseISO(e.date)]
        HasDate(e)  == e.date.valid
    IN  SelectSeq([i \in 1..Len(data) |-> WithDate(data[i])], HasDate)

MsgNetworkError == <<"N", "e", "t", "w", "o", "r", "k", " ", "E", "r", "r", "o", "r">>

\* The effect that runs on mount: axios.get of all events; the events are kept
\* on success, the message of the failure otherwise.
LoadEvents ==
    /\ loading
    /\ \E outcome \in {"answered", "failed", "unreachable"} :
          LET response == getEvents(NoQuery, store, outcome = "answered")
          IN  /\ allEvents' = IF outcome = "answered" THEN eventsWithDates(response.events)
                              ELSE <<>>
              /\ pageError' = CASE outcome = "answered" -> <<>>
                            [] outcome = "failed" -> <<response.message>>
                            [] outcome = "unreachable" -> <<MsgNetworkError>>
    /\ loading' = FALSE
    /\ UNCHANGED <<tz, selectedDate, filters>>
    /\ UNCHANGED <<serverVars, parseVars, findVars, formVars>>

\* The people of all events without the empty ones, each once, unsorted.
uniquePeopleUnsorted ==
    LET allPeople   == flat([i \in 1..Len(allEvents) |-> allEvents[i].people])
        NonEmpty(x) == x # <<>>
    IN  SetOf(SelectSeq(allPeople, NonEmpty))

uniquePeople ==
    LET allPeople   == flat([i \in 1..Len(allEvents) |-> allEvents[i].people])
        NonEmpty(x) == x # <<>>
    IN  sort(SetOf(SelectSeq(allPeople, NonEmpty)))

uniqueTags ==
    LET allTags     == flat([i \in 1..Len(allEvents) |-> allEvents[i].tags])
        NonEmpty(x) == x # <<>>
    IN  sort(SetOf(SelectSeq(allTags, NonEmpty)))

\* The callback of filteredEvents.
matches(event) ==
    LET matchesDate   == selectedDate = <<>>
                         \/ startOfDay(event.date.ms) = startOfDay(selectedDate[1].ms)
        matchesTitle  == toLowerCase(filters.title) = <<>>
                         \/ (event.title # <<>>
                             /\ includes(toLowerCase(event.title), toLowerCase(filters.title)))
        matchesPeople == filters.people = <<>>
                         \/ \E i \in 1..Len(event.people) : event.people[i] = filters.people
        matchesTags   == filters.tags = <<>>
                         \/ \E i \in 1..Len(event.tags) : event.tags[i] = filters.tags
    IN  event.date.valid /\ matchesDate /\ matchesTitle /\ matchesPeople /\ matchesTags

\* The matching events in the reverse of their order.
filteredEventsReversed ==
    LET kept == SelectSeq(allEvents, matches)
    IN  [i \in 1..Len(kept) |-> kept[Len(kept) + 1 - i]]

filteredEvents == SelectSeq(allEvents, matches)

tableEvents ==
    LET OnSelected(event) ==
            event.date.valid /\ startOfDay(event.date.ms) = startOfDay(selectedDate[1].ms)
    IN  IF selectedDate = <<>> THEN <<>> ELSE SelectSeq(filteredEvents, OnSelected)

\* compareAsc of date-fns as the comparator of sort.
RECURSIVE sortAsc(_)
sortAsc(a) ==
    IF a = <<>> THEN <<>>
    ELSE LET last   == a[Len(a)]
             sorted == sortAsc(SubSeq(a, 1, Len(a) - 1))
             Before(x) == x.ms <= last.ms
             After(x)  == x.ms > last.ms
         IN  SelectSeq(sorted, Before) \o <<last>> \o SelectSeq(sorted, After)

\* Timeline: the days of the events it is given, which are all events.
uniqueDates ==
    LET dates == [i \in 1..Len(allEvents) |-> startOfDay(allEvents[i].date.ms)]
        uniqueTimestamps == SetOf(dates)
    IN  sortAsc([i \in 1..Len(uniqueTimestamps) |-> Instant(uniqueTimestamps[i])])

\* The page shows the filter, the timeline and the table once the events are
\* loaded, the load did not fail and there is an event.
MainView == ~loading /\ pageError = <<>> /\ allEvents # <<>>

\* A handler that selects the date it is given and never deselects.
handleDateSelectNoToggle(date) ==
    /\ selectedDate' = IF date # <<>> /\ date[1].valid THEN date ELSE <<>>
    /\ UNCHANGED <<tz, loading, allEvents, filters, pageError>>
    /\ UNCHANGED <<serverVars, parseVars, findVars, formVars>>

\* The handler of a click on a date of the timeline; date is <<>> for null and
\* <<d>> for the Date d.  The date is selected, or deselected when it is on the
\* day of the selected one.
handleDateSelect(date) ==
    /\ selectedDate' =
          IF /\ selectedDate # <<>> /\ date # <<>> /\ date[1].valid /\ selectedDate[1].valid
             /\ startOfDay(selectedDate[1].ms) = startOfDay(date[1].ms)
          THEN <<>>
          ELSE IF date # <<>> /\ date[1].valid THEN date ELSE <<>>
    /\ UNCHANGED <<tz, loading, allEvents, filters, pageError>>
    /\ UNCHANGED <<serverVars, parseVars, findVars, formVars>>

\* Timeline: a click on the button of one of its dates.
DateClick ==
    /\ MainView
    /\ \E i \in 1..Len(uniqueDates) : handleDateSelect(<<uniqueDates[i]>>)

\* The arguments handleDateSelect is called with: a date of the timeline, and
\* the two arguments it guards against, null and an invalid Date.
DateArguments ==
    {<<>>, <<InvalidDate>>} \cup {<<uniqueDates[i]>> : i \in 1..Len(uniqueDates)}

\* handleDateSelect called with any of its arguments.
DateSelect ==
    /\ MainView
    /\ \E date \in DateArguments : handleDateSelect(date)

handleFilterChange(newFilters) ==
    /\ filters' = newFilters
    /\ UNCHANGED <<tz, loading, allEvents, selectedDate, pageError>>
    /\ UNCHANGED <<serverVars, parseVars, findVars, formVars>>

\* The texts typed into the title filter.
TitleFilterInputs == {<<>>, <<"U">>, <<"p", "a", "r", "t", "y">>}

\* EventFilter.handleChange: the title typed over, or an option of one of the
\* two dropdowns chosen.
handleChange ==
    /\ MainView
    /\ \/ \E value \in TitleFilterInputs :
             handleFilterChange([filters EXCEPT !.title = value])
       \/ \E value \in {<<>>} \cup {uniquePeople[i] : i \in 1..Len(uniquePeople)} :
             handleFilterChange([filters EXCEPT !.people = value])
       \/ \E value \in {<<>>} \cup {uniqueTags[i] : i \in 1..Len(uniqueTags)} :
             handleFilterChange([filters EXCEPT !.tags = value])

handleClearFilters ==
    /\ MainView
    /\ handleFilterChange([title |-> <<>>, people |-> <<>>, tags |-> <<>>])

\* The time zones of the model's browsers: two hours behind UTC, UTC, and two
\* hours ahead.
TimeZones == {-7200000, 0, 7200000}

InitClient ==
    /\ ServerAt(MaxLoaded)
    /\ ParseIdle /\ FindIdle /\ FormIdle
    /\ tz \in TimeZones
    /\ loading = TRUE
    /\ allEvents = <<>>
    /\ selectedDate = <<>>
    /\ filters = [title |-> <<>>, people |-> <<>>, tags |-> <<>>]
    /\ pageError = <<>>

NextClient ==
    \/ LoadEvents
    \/ DateClick
    \/ handleChange
    \/ handleClearFilters

SpecClient == InitClient /\ [][NextClient]_vars

\* The page with handleDateSelect called with every kind of argument.
NextSelect ==
    \/ LoadEvents
    \/ DateSelect
    \/ handleChange
    \/ handleClearFilters

SpecSelect == InitClient /\ [][NextSelect]_vars

(***************************************************************************)
(* The event form of the client: the address input and its suggestions.    *)
(***************************************************************************)
\* The delay of the debounced fetchAddressSuggestions, in ms.
Wait == 500

\* The values of the address input in the model.
AddressTexts == {<<>>, <<"M", "a">>, <<"M", "a", "i">>, <<"M", "a", "i", "n">>}

MsgSuggestStatus == <<"C", "o", "u", "l", "d", " ", "n", "o", "t", " ", "f", "e", "t", "c", "h", " ", "s", "u", "g", "g", "e", "s", "t", "i", "o", "n", "s", " ", "(", "S", "t", "a", "t", "u", "s", ":", " ", "5", "0", "0", ")", ".">>

MsgSuggestNetwork == <<"N", "e", "t", "w", "o", "r", "k", " ", "e", "r", "r", "o", "r", ":", " ", "C", "o", "u", "l", "d", " ", "n", "o", "t", " ", "r", "e", "a", "c", "h", " ", "a", "d", "d", "r", "e", "s", "s", " ", "s", "u", "g", "g", "e", "s", "t", "i", "o", "n", " ", "s", "e", "r", "v", "i", "c", "e", ".">>

\* A query without content.
emptyQuery(query) == query = <<>>

\* !query || query.length < 3
tooShort(query) == query = <<>> \/ Len(query) < 3

\* debounce: the function returned clears the timer and sets it anew with the
\* arguments of this call.
executedFunction(query) ==
    timeout' = <<[query |-> query, due |-> clock + Wait, key |-> Len(typed) + 1]>>

\* A change of the address input.
handleAddressChange ==
    /\ Len(typed) < MaxTyped
    /\ \E newAddress \in AddressTexts :
          /\ address' = newAddress
          /\ executedFunction(newAddress)
          /\ typed' = Append(typed, [value |-> newAddress, at |-> clock])
    /\ formError' = <<>>
    /\ UNCHANGED <<addressSuggestions, loadingSuggestions, clock, sent>>
    /\ UNCHANGED <<serverVars, parseVars, findVars, clientVars>>

\* The timer of debounce runs out: later() clears it and calls the function
\* with the arguments of the last call, which ends at once for a short query
\* and requests the suggestions of Nominatim otherwise.
later ==
    /\ timeout # <<>>
    /\ clock >= timeout[1].due
    /\ timeout' = <<>>
    /\ IF tooShort(timeout[1].query)
       THEN /\ addressSuggestions' = <<>>
            /\ loadingSuggestions' = FALSE
            /\ UNCHANGED <<formError, sent>>
       ELSE /\ loadingSuggestions' = TRUE
            /\ formError' = <<>>
            /\ sent' = Append(sent, [query |-> timeout[1].query, at |-> clock,
                                      key |-> timeout[1].key, pending |-> TRUE])
            /\ UNCHANGED addressSuggestions
    /\ UNCHANGED <<address, clock, typed>>
    /\ UNCHANGED <<serverVars, parseVars, findVars, clientVars>>

\* The suggestions of Nominatim for a query: in the model one place, named by
\* the query.
Suggestions(query) == <<[display_name |-> query \o <<",", " ", "S", "p", "r", "i", "n", "g", "f", "i", "e", "l", "d">>]>>

\* The request i ends: its suggestions are shown, or the message of its
\* failure; the loading indicator is turned off.
SuggestionsArrive(i) ==
    /\ sent[i].pending
    /\ \E outcome \in {"ok", "status", "unreachable"} :
          /\ addressSuggestions' = IF outcome = "ok" THEN Suggestions(sent[i].query) ELSE <<>>
          /\ formError' = CASE outcome = "ok" -> formError
                            [] outcome = "status" -> MsgSuggestStatus
                            [] outcome = "unreachable" -> MsgSuggestNetwork
    /\ loadingSuggestions' = FALSE
    /\ sent' = [sent EXCEPT ![i].pending = FALSE]
    /\ UNCHANGED <<address, timeout, clock, typed>>
    /\ UNCHANGED <<serverVars, parseVars, findVars, clientVars>>

\* A click on a suggestion shown; the list is shown while the loading
\* indicator is off.
handleSuggestionClick ==
    /\ ~loadingSuggestions
    /\ \E i \in 1..Len(addressSuggestions) : address' = addressSuggestions[i].display_name
    /\ addressSuggestions' = <<>>
    /\ formError' = <<>>
    /\ UNCHANGED <<loadingSuggestions, timeout, clock, typed, sent>>
    /\ UNCHANGED <<serverVars, parseVars, findVars, clientVars>>

\* A quarter of a second passes.
Tick ==
    /\ clock < MaxTicks * 250
    /\ clock' = clock + 250
    /\ UNCHANGED <<address, addressSuggestions, loadingSuggestions, formError, timeout, typed, sent>>
    /\ UNCHANGED <<serverVars, parseVars, findVars, clientVars>>

InitForm == ServerIdle /\ ParseIdle /\ FindIdle /\ ClientIdle /\ FormIdle

NextForm ==
    \/ handleAddressChange
    \/ later
    \/ \E i \in 1..Len(sent) : SuggestionsArrive(i)
    \/ handleSuggestionClick
    \/ Tick

SpecForm == InitForm /\ [][NextForm]_vars

Next ==
    \/ SeedCount
    \/ SeedInsert
    \/ \E r \in Requests : Arrive(r)
    \/ \E r \in Requests : UploadFile(r)
    \/ \E r \in Requests : Handle(r)
    \/ \E r \in Requests : GeocodeReturn(r)
    \/ \E r \in Requests : Save(r)

Spec == Init /\ [][Next]_vars

\* The server from its start with one create request and one find request.
NextStore ==
    \/ SeedCount
    \/ SeedInsert
    \/ Arrive(1)
    \/ UploadFile(1)
    \/ Handle(1)
    \/ GeocodeReturn(1)
    \/ Save(1)
    \/ GetEvents

SpecStore == Init /\ [][NextStore]_vars

(***************************************************************************)
(* Vocabulary of the properties.                                           *)
(***************************************************************************)
Done(r) == req[r].pc = "done"

Answer(r) == req[r].res[1]

\* The upload middleware ended the request: the route's handler never ran.
UploadAborted(r) == Done(r) /\ Len(req[r].files) # Len(req[r].body.files)

\* The geocoding request of r ended without a candidate: it failed, or its
\* answer holds none.
NoCandidate(g) == g.kind \in {"unreachable", "status", "null"} \/ g.data = <<>>

\* The events a GET without filter returns, the database being up.
FindAll(coll) == getEvents(NoQuery, coll, TRUE).events

\* The text of a finite decimal number, all of it: an optional sign, digits, and
\* an optional fraction.
IsFiniteNumberText(f) ==
    /\ f.present
    /\ LET s     == Trim(f.text)
           u     == IF s # <<>> /\ s[1] \in {"+", "-"} THEN Tail(s) ELSE s
           dots  == {i \in 1..Len(u) : u[i] = "."}
       IN  /\ \A i \in 1..Len(u) : u[i] \in Digits \cup {"."}
           /\ Cardinality(dots) <= 1
           /\ \E i \in 1..Len(u) : u[i] \in Digits

\* The number a candidate's lat or lon text denotes: NaN unless the whole text
\* is a number.
NumberOf(f) ==
    IF IsFiniteNumberText(f) THEN parseFloat(f)
    ELSE IF f.present /\ Trim(f.text) \in {<<"Infinity">>, <<"+", "Infinity">>} THEN Inf(1)
    ELSE IF f.present /\ Trim(f.text) = <<"-", "Infinity">> THEN Inf(-1)
    ELSE NaN

\* The text begins, after white space, with something parseFloat reads: a sign
\* or not, then a digit, a fraction or Infinity.
BeginsWithNumber(f) ==
    /\ f.present
    /\ LET s == TrimStart(f.text)
           u == IF s # <<>> /\ s[1] \in {"+", "-"} THEN Tail(s) ELSE s
       IN  /\ u # <<>>
           /\ \/ u[1] \in Digits \cup {"Infinity"}
              \/ u[1] = "." /\ Len(u) > 1 /\ u[2] \in Digits

\* The fields the create handler requires, and those of them a body lacks
\* (absent or empty).
RequiredNames == {"title", "date", "address"}

MissingFields(b) == {n \in RequiredNames : Falsy(b[n])}

LacksRequired(b) == MissingFields(b) # {}

(***************************************************************************)
(* C1                                                                      *)
(***************************************************************************)
\* C1: in every state, after any creates and the seeding, every stored event
\* has location.coordinates of exactly two elements, both of them numbers.
C1_StoredCoordinates ==
    \A i \in 1..Len(store) :
        LET c == store[i].location.coordinates
        IN  Len(c) = 2 /\ \A k \in 1..Len(c) : c[k].kind \in {"finite", "inf"}

\* The seeded events and a created one are stored.
C1_Witness ==
    \E r \in Requests :
        Done(r) /\ Answer(r).status = 201 /\ Len(store) = Len(dummyEvents) + 1

(***************************************************************************)
(* C2                                                                      *)
(***************************************************************************)
\* C2: the step in which the geocoding of a request ends without a candidate
\* (the request to Nominatim failed, or its answer holds no candidate) ends the
\* request with an error response, and a GET without filter returns the same
\* events after the step as before it.
C2_GeocodingFailureRejects ==
    [][\A r \in Requests :
          (req[r].pc = "geocoding" /\ req'[r].geo # <<>> /\ NoCandidate(req'[r].geo[1]))
          => /\ req'[r].pc = "done"
             /\ req'[r].res[1].status >= 400
             /\ req'[r].res[1].event = <<>>
             /\ FindAll(store') = FindAll(store)]_vars

\* A request rejected for an answer without candidates, the seeded events stored.
C2_Witness ==
    \E r \in Requests :
        /\ Done(r) /\ req[r].geo # <<>> /\ req[r].geo[1].kind = "array"
        /\ NoCandidate(req[r].geo[1])
        /\ Len(FindAll(store)) = Len(dummyEvents)

(***************************************************************************)
(* C3                                                                      *)
(***************************************************************************)
\* C3: a request whose title, date or address is missing or empty never reaches
\* the geocoder, never builds an event and is answered with an error; no step of
\* such a request changes the store.
C3_MissingFieldStopsEarly ==
    /\ [](\A r \in Requests :
            (req[r].pc # "new" /\ LacksRequired(req[r].body))
            => /\ ~req[r].geocoded
               /\ req[r].geo = <<>>
               /\ req[r].newEvent = <<>>
               /\ Done(r) => (Answer(r).status >= 400 /\ Answer(r).event = <<>>))
    /\ [][\A r \in Requests :
            (req'[r] # req[r] /\ LacksRequired(req'[r].body)) => store' = store]_vars

\* A request with an empty title and all else in order, rejected.
C3_Witness ==
    \E r \in Requests :
        /\ Done(r) /\ req[r].body.title = Str(<<>>)
        /\ ~Falsy(req[r].body.date) /\ ~Falsy(req[r].body.address)
        /\ Answer(r).status = 400

(***************************************************************************)
(* C4                                                                      *)
(***************************************************************************)
NameText(n) ==
    CASE n = "title" -> <<"t", "i", "t", "l", "e">>
      [] n = "date" -> <<"d", "a", "t", "e">>
      [] n = "address" -> <<"a", "d", "d", "r", "e", "s", "s">>

\* The required fields a message names.
NamedFields(message) == {n \in RequiredNames : includes(toLowerCase(message), NameText(n))}

\* C4, as claimed: the error for missing required fields names exactly the
\* fields that are missing.
C4_NamesExactlyMissing ==
    \A r \in Requests :
        (Done(r) /\ ~UploadAborted(r) /\ LacksRequired(req[r].body))
        => NamedFields(Answer(r).message) = MissingFields(req[r].body)

\* C4, amended: the handler answers a request with missing required fields with
\* status 400 and one fixed message, which names title, date and address
\* whichever of them are missing, and carries no list of fields.
C4_FixedMessage ==
    \A r \in Requests :
        (Done(r) /\ ~UploadAborted(r) /\ LacksRequired(req[r].body))
        => /\ Answer(r).status = 400
           /\ Answer(r).keys = {"message"}
           /\ Answer(r).errors = <<>>
           /\ NamedFields(Answer(r).message) = RequiredNames

\* Only the title is missing, and the message names the date.
C4_Witness ==
    \E r \in Requests :
        /\ Done(r) /\ MissingFields(req[r].body) = {"title"}
        /\ "date" \in NamedFields(Answer(r).message)

(***************************************************************************)
(* C5                                                                      *)
(***************************************************************************)
\* C5, as claimed: once a request is rejected for a missing required field, no
\* file uploaded with it is in the uploads directory.
C5_NoFilesRetained ==
    \A r \in Requests :
        (Done(r) /\ LacksRequired(req[r].body))
        => \A p \in DOMAIN disk : disk[p].request # r

(***************************************************************************)
(* C6                                                                      *)
(***************************************************************************)
\* C6, as claimed: a create that fails because of geocoding (no candidate, the
\* upstream unreachable, unusable coordinates) is answered with 500, a failed
\* validation with 400, a success with 201.
C6_GeocodingFailuresAre500 ==
    \A r \in Requests :
        Done(r) =>
            /\ (req[r].geo # <<>> /\ NoCandidate(req[r].geo[1])) => Answer(r).status = 500
            /\ (req[r].geo # <<>> /\ ~NoCandidate(req[r].geo[1])
                  /\ ~(IsFiniteNumberText(req[r].geo[1].data[1].lat)
                        /\ IsFiniteNumberText(req[r].geo[1].data[1].lon)))
               => Answer(r).status = 500
            /\ (~UploadAborted(r) /\ LacksRequired(req[r].body)) => Answer(r).status = 400
            /\ (Answer(r).event # <<>>) => Answer(r).status = 201

\* C6, amended: an answer of the geocoder without candidates is answered with
\* 400; a failed request to the geocoder, and a first candidate whose lat or lon
\* does not begin with a number, with 500; missing required fields and a
\* document the schema rejects with 400; a database error with 500; and a
\* create is answered with 201 exactly when its event was stored.
C6_StatusCodes ==
    \A r \in Requests :
        (Done(r) /\ ~UploadAborted(r)) =>
            LET a == Answer(r)
                g == req[r].geo[1]
            IN  IF LacksRequired(req[r].body) THEN a.status = 400
                ELSE IF g.kind \in {"unreachable", "status"} THEN a.status = 500
                ELSE IF NoCandidate(g) THEN a.status = 400
                ELSE IF ~(BeginsWithNumber(g.data[1].lat) /\ BeginsWithNumber(g.data[1].lon))
                     THEN a.status = 500
                ELSE /\ req[r].newEvent # <<>>
                     /\ IF ValidationErrors(req[r].newEvent[1]) # <<>> THEN a.status = 400
                        ELSE \/ a.status = 500 /\ a.event = <<>>
                             \/ /\ a.status = 201 /\ a.event # <<>>
                                /\ \E i \in 1..Len(store) : store[i]._id = a.event[1]._id

\* An answer without candidates was answered with 400.
C6_Witness ==
    \E r \in Requests :
        /\ Done(r) /\ req[r].geo # <<>> /\ req[r].geo[1].kind = "array"
        /\ req[r].geo[1].data = <<>>
        /\ Answer(r).status = 400

(***************************************************************************)
(* C7                                                                      *)
(***************************************************************************)
\* C7, as claimed: the coordinates stored by a successful create are the lon and
\* the lat of the first candidate, in this order.
C7_CoordinatesOfCandidate ==
    \A r \in Requests :
        (Done(r) /\ Answer(r).status = 201) =>
            \E i \in 1..Len(store) :
                /\ store[i]._id = Answer(r).event[1]._id
                /\ store[i].location.coordinates =
                       << NumberOf(req[r].geo[1].data[1].lon),
                          NumberOf(req[r].geo[1].data[1].lat) >>

(***************************************************************************)
(* C8                                                                      *)
(***************************************************************************)
\* C8, as claimed: when the lat or the lon of the first candidate is not the
\* text of a finite number, the create ends with the geocoding error and builds
\* and stores no event.
C8_MalformedCandidateRejected ==
    \A r \in Requests :
        (/\ req[r].geo # <<>> /\ ~NoCandidate(req[r].geo[1])
         /\ ~(IsFiniteNumberText(req[r].geo[1].data[1].lat)
               /\ IsFiniteNumberText(req[r].geo[1].data[1].lon)))
        => /\ Done(r)
           /\ Answer(r).status = 500
           /\ Answer(r).message = MsgGeoFailed
           /\ req[r].newEvent = <<>>

(***************************************************************************)
(* C9                                                                      *)
(***************************************************************************)
\* The pieces of s from position k on: a piece begins at a character that is
\* neither a comma nor white space and ends at the last such character before
\* the next comma.
RECURSIVE PiecesFrom(_, _)
PiecesFrom(s, k) ==
    IF k > Len(s) THEN <<>>
    ELSE IF s[k] \in WhiteSpace \cup {","} THEN PiecesFrom(s, k + 1)
    ELSE LET stop == IF \E j \in k..Len(s) : s[j] = ","
                     THEN (CHOOSE j \in k..Len(s) :
                              s[j] = "," /\ \A m \in k..(j - 1) : s[m] # ",") - 1
                     ELSE Len(s)
             last == CHOOSE j \in k..stop :
                         s[j] \notin WhiteSpace /\ \A m \in (j + 1)..stop : s[m] \in WhiteSpace
         IN  <<SubSeq(s, k, last)>> \o PiecesFrom(s, stop + 2)

\* The reference result for a people or tags text.
ListOf(f) == IF ~f.present THEN <<>> ELSE PiecesFrom(f.text, 1)

\* C9: for every people and tags text, the parsed sequence is the reference
\* result: the pieces between commas, trimmed, the empty ones dropped, in their
\* order, duplicates kept; the empty sequence for an absent or empty text.
C9_ParsedList ==
    /\ parsed.peopleDone => parsed.people = ListOf(text)
    /\ parsed.tagsDone => parsed.tags = ListOf(text)

\* "a, ,a" is parsed, for people and for tags, to a and a.
C9_Witness ==
    /\ text = Str(<<"a", ",", " ", ",", "a">>)
    /\ parsed.peopleDone /\ parsed.tagsDone
    /\ parsed.people = << <<"a">>, <<"a">> >>
    /\ parsed.tags = << <<"a">>, <<"a">> >>

(***************************************************************************)
(* C10                                                                     *)
(***************************************************************************)
\* C10: the event a successful create returned is, in every later state, among
\* the events a GET without filter returns, once, equal in every field; and its
\* address is the address submitted.
C10_RoundTrip ==
    \A r \in Requests :
        (Done(r) /\ Answer(r).status = 201) =>
            LET created == Answer(r).event[1]
                found   == FindAll(store)
            IN  /\ Cardinality({i \in 1..Len(found) : found[i]._id = created._id}) = 1
                /\ \E i \in 1..Len(found) : found[i] = created
                /\ created.location.address = req[r].body.address.text
                /\ created.title = req[r].body.title.text

\* A created event with people, tags and an image, among the seeded events.
C10_Witness ==
    \E r \in Requests :
        /\ Done(r) /\ Answer(r).status = 201
        /\ Answer(r).event[1].people # <<>>
        /\ Answer(r).event[1].tags # <<>>
        /\ Answer(r).event[1].images # <<>>
        /\ Len(FindAll(store)) = Len(dummyEvents) + 1

(***************************************************************************)
(* C11                                                                     *)
(***************************************************************************)
\* The GET request answered, and the stored document behind an event of its
\* response.
Got == get[1]

Stored(j) == CHOOSE e \in {store[i] : i \in 1..Len(store)} : e._id = j._id

\* C11: whatever the collection holds and whatever the request asks for, the
\* events of the response are in descending order of date: of two consecutive
\* events the first has the later or the same date.
C11_SortedByDateDescending ==
    get # <<>> =>
        \A i \in 1..(Len(Got.res.events) - 1) :
            Stored(Got.res.events[i]).date.ms >= Stored(Got.res.events[i + 1]).date.ms

\* A response of three events of three dates that the collection holds in
\* another order.
C11_Witness ==
    /\ get # <<>> /\ Got.res.status = 200
    /\ Len(Got.res.events) = 3
    /\ Stored(Got.res.events[1]).date.ms > Stored(Got.res.events[2]).date.ms
    /\ Stored(Got.res.events[2]).date.ms > Stored(Got.res.events[3]).date.ms
    /\ Got.res.events[1]._id > Got.res.events[2]._id

(***************************************************************************)
(* C12                                                                     *)
(***************************************************************************)
\* The term occurs in the text as it stands, letters compared without case.
ContainsLiteral(s, term) == includes(toLowerCase(s), toLowerCase(term))

LiteralSearch(e, term) ==
    \/ ContainsLiteral(e.title, term)
    \/ ContainsLiteral(e.description, term)
    \/ \E i \in 1..Len(e.people) : ContainsLiteral(e.people[i], term)
    \/ \E i \in 1..Len(e.tags) : ContainsLiteral(e.tags[i], term)
    \/ ContainsLiteral(e.location.address, term)

\* The day of the date filter, from its first to its last millisecond in UTC.
OnDayOf(e, date) ==
    LET d == NewDate(date).ms
    IN  e.date.ms \in (d - (d % 86400000))..(d - (d % 86400000) + 86399999)

Satisfies(e, query) ==
    /\ Falsy(query.search) \/ LiteralSearch(e, query.search.text)
    /\ Falsy(query.date) \/ OnDayOf(e, query.date)

\* C12: a request with no date or a date that parses, answered by a working
\* database, returns exactly the stored events in which the search term occurs
\* as a literal substring (if there is a term) and whose date lies on the day
\* asked for (if there is one).
C12_ExactlyTheLiteralMatches ==
    (get # <<>> /\ Got.dbOk /\ (Falsy(Got.query.date) \/ NewDate(Got.query.date).valid)) =>
        /\ Got.res.status = 200
        /\ {j._id : j \in {Got.res.events[i] : i \in 1..Len(Got.res.events)}}
             = {e._id : e \in {d \in {store[i] : i \in 1..Len(store)} : Satisfies(d, Got.query)}}

(***************************************************************************)
(* C13                                                                     *)
(***************************************************************************)
\* The request carries a date parameter that is no date.
MalformedDate(query) == query.date.present /\ ~NewDate(query.date).valid

WithoutDate(query) == [query EXCEPT !.date = Undefined]

\* C13 as stated: a request whose date parameter is no date is answered with
\* 200 and with the answer of the same request without the date.
C13_NeverAnError ==
    (get # <<>> /\ MalformedDate(Got.query)) =>
        /\ Got.res.status = 200
        /\ Got.res = getEvents(WithoutDate(Got.query), store, Got.dbOk)

\* C13: a request whose date parameter is no date gets the answer the same
\* request without the date gets from the same database; the answer is 200
\* exactly when the database works and the search term, if any, compiles as a
\* regular expression, and 500 otherwise.
C13_MalformedDateIgnored ==
    (get # <<>> /\ MalformedDate(Got.query)) =>
        /\ Got.res = getEvents(WithoutDate(Got.query), store, Got.dbOk)
        /\ Got.res.status \in {200, 500}
        /\ Got.res.status = 200 <=>
              (Got.dbOk /\ (Falsy(Got.query.search) \/ RegExpCompiles(Got.query.search.text)))

\* A request with the date "soon" and no search term, answered with all three
\* documents of the collection.
C13_Witness ==
    /\ get # <<>> /\ Got.query.date = Str(<<"s", "o", "o", "n">>)
    /\ Got.res.status = 200
    /\ Len(store) = 3 /\ Len(Got.res.events) = 3

(***************************************************************************)
(* C14                                                                     *)
(***************************************************************************)
Range(a) == {a[i] : i \in 1..Len(a)}

\* The list is in ascending lexicographic order without a repetition.
StrictlyAscending(names) ==
    \A i \in 1..(Len(names) - 1) : StringLess(names[i], names[i + 1])

\* C14: uniquePeople and uniqueTags are sorted lexicographically, repeat no
\* entry, hold no empty entry and hold exactly the non-empty names (tags) of
\* the loaded events; an event without people contributes nothing.
C14_UniqueSortedFacets ==
    /\ StrictlyAscending(uniquePeople)
    /\ StrictlyAscending(uniqueTags)
    /\ <<>> \notin Range(uniquePeople) \cup Range(uniqueTags)
    /\ Range(uniquePeople) = UNION {Range(e.people) : e \in Range(allEvents)} \ {<<>>}
    /\ Range(uniqueTags) = UNION {Range(e.tags) : e \in Range(allEvents)} \ {<<>>}

\* Three events loaded, one of them without people, a name that two of them
\* share, and a first name met that is not the least.
C14_Witness ==
    /\ Len(allEvents) = 3
    /\ \E e \in Range(allEvents) : e.people = <<>>
    /\ \E i, j \in 1..3 : i # j /\ Range(allEvents[i].people) \cap Range(allEvents[j].people) # {}
    /\ Len(uniquePeople) = 2
    /\ \E k \in 1..3 :
          /\ allEvents[k].people # <<>> /\ allEvents[k].people[1] # uniquePeople[1]
          /\ \A i \in 1..(k - 1) : allEvents[i].people = <<>>

(***************************************************************************)
(* C15                                                                     *)
(***************************************************************************)
\* The calendar day of an instant in UTC, counted in days.
UTCDay(ms) == ms \div 86400000

\* C15: uniqueDates is in ascending order and holds one entry for each
\* calendar day on which an event of the page occurs, and no other entry.
C15_OnePerCalendarDay ==
    /\ \A i \in 1..(Len(uniqueDates) - 1) : uniqueDates[i].ms < uniqueDates[i + 1].ms
    /\ {UTCDay(d.ms) : d \in Range(uniqueDates)} = {UTCDay(e.date.ms) : e \in Range(allEvents)}
    /\ Len(uniqueDates) = Cardinality({UTCDay(e.date.ms) : e \in Range(allEvents)})

(***************************************************************************)
(* C16                                                                     *)
(***************************************************************************)
NoFilters == [title |-> <<>>, people |-> <<>>, tags |-> <<>>]

\* C16: the dates of the timeline are starts of days in UTC, and with a date
\* selected and no other filter an event is shown exactly when it falls on the
\* UTC day of the selected date, whatever the time zone of the browser.
C16_DayMatchingInUTC ==
    /\ \A d \in Range(uniqueDates) : d.ms % 86400000 = 0
    /\ (selectedDate # <<>> /\ filters = NoFilters) =>
          \A e \in Range(allEvents) :
              e \in Range(filteredEvents) <=> UTCDay(e.date.ms) = UTCDay(selectedDate[1].ms)

(***************************************************************************)
(* C17                                                                     *)
(***************************************************************************)
\* The four conditions of the filter.
DateHolds(e) == selectedDate = <<>> \/ UTCDay(e.date.ms) = UTCDay(selectedDate[1].ms)

TitleHolds(e) ==
    filters.title = <<>> \/ includes(toLowerCase(e.title), toLowerCase(filters.title))

PeopleHolds(e) == filters.people = <<>> \/ filters.people \in Range(e.people)

TagsHolds(e) == filters.tags = <<>> \/ filters.tags \in Range(e.tags)

\* C17: an event is among the filtered events exactly when it is on the day
\* of the selected date (if one is selected), its title contains the title
\* filter (if there is one), its people contain the selected person (if one is
\* selected) and its tags contain the selected tag (if one is selected).
C17_AllFourConditions ==
    \A e \in Range(allEvents) :
        e \in Range(filteredEvents) <=>
            (DateHolds(e) /\ TitleHolds(e) /\ PeopleHolds(e) /\ TagsHolds(e))

(***************************************************************************)
(* C18                                                                     *)
(***************************************************************************)
\* C18: the filtered events are the loaded events with some left out, in the
\* order in which they were loaded; and filtering the filtered events again
\* leaves them as they are.
C18_SubsequenceAndIdempotent ==
    /\ LET Kept(e) == e \in Range(filteredEvents)
       IN  filteredEvents = SelectSeq(allEvents, Kept)
    /\ SelectSeq(filteredEvents, matches) = filteredEvents

\* Three events loaded, a person selected whom two of them include.
C18_Witness ==
    /\ Len(allEvents) = 3 /\ filters.people # <<>>
    /\ Len(filteredEvents) = 2
    /\ filteredEvents[1]._id # filteredEvents[2]._id

(***************************************************************************)
(* C19                                                                     *)
(***************************************************************************)
\* C19: the table is empty while no date is selected; with a date selected it
\* holds the filtered events that fall on the day of that date, in their
\* order.
C19_TableOfSelectedDay ==
    LET OnDay(e) == UTCDay(e.date.ms) = UTCDay(selectedDate[1].ms)
    IN  IF selectedDate = <<>> THEN tableEvents = <<>>
        ELSE tableEvents = SelectSeq(filteredEvents, OnDay)

(***************************************************************************)
(* C20                                                                     *)
(***************************************************************************)
\* C20: every suggestion request carries a query of three characters or more,
\* the value of a change of the address input that no other change followed
\* before the request, and is issued 500 ms or more after that change; a
\* change followed by another within less than 500 ms leads to no request, and
\* no change leads to two.
C20_DebouncedRequests ==
    /\ \A i \in 1..Len(sent) :
          /\ Len(sent[i].query) >= 3
          /\ sent[i].key \in 1..Len(typed)
          /\ sent[i].query = typed[sent[i].key].value
          /\ sent[i].at >= typed[sent[i].key].at + 500
          /\ \A k \in (sent[i].key + 1)..Len(typed) : typed[k].at >= sent[i].at
    /\ \A k \in 1..(Len(typed) - 1) :
          typed[k + 1].at - typed[k].at < 500 => \A i \in 1..Len(sent) : sent[i].key # k
    /\ \A i, j \in 1..Len(sent) : sent[i].key = sent[j].key => i = j

\* Three queries of three characters or more, the first two a quarter of a
\* second apart, the third after the request for the second: two requests, for
\* the second and for the third.
C20_Witness ==
    /\ Len(typed) = 3 /\ Len(sent) = 2
    /\ \A k \in 1..3 : Len(typed[k].value) >= 3
    /\ typed[2].at - typed[1].at = 250
    /\ sent[1].key = 2 /\ sent[2].key = 3

(***************************************************************************)
(* C21                                                                     *)
(***************************************************************************)
\* The response of request i arrives in this step.
Arrives(i) == i \in 1..Len(sent) /\ sent[i].pending /\ ~sent'[i].pending

\* C21: a response that arrives after a newer request was issued is
\* discarded: the step in which it arrives leaves the suggestions as they are.
C21_SupersededResponseDiscarded ==
    [][\A i \in 1..Len(sent) :
          (Arrives(i) /\ i < Len(sent)) => addressSuggestions' = addressSuggestions]_vars

(***************************************************************************)
(* C29                                                                     *)
(***************************************************************************)
InFlight == {i \in 1..Len(sent) : sent[i].pending}

\* C29: the loading indicator is on exactly while a suggestion request is in
\* flight.
C29_LoadingWhileInFlight == loadingSuggestions <=> InFlight # {}

(***************************************************************************)
(* C22                                                                     *)
(***************************************************************************)
\* The request carries a file that is no image, a file over the size limit or
\* more files than the upload takes.
UploadFault(b) ==
    \/ Len(b.files) > 5
    \/ \E i \in 1..Len(b.files) :
          \/ SubSeq(b.files[i].mimetype, 1, 6) # <<"i", "m", "a", "g", "e", "/">>
          \/ b.files[i].size > 5 * 1024 * 1024

\* C22: a create request with a faulty upload is answered with 400 and a
\* message, and nothing is stored for it.
C22_UploadRejectedWith400 ==
    \A r \in Requests :
        (Done(r) /\ UploadFault(req[r].body)) =>
            /\ Answer(r).status = 400
            /\ Answer(r).message # <<>>
            /\ Answer(r).event = <<>>
            /\ req[r].newEvent = <<>>

(***************************************************************************)
(* C23                                                                     *)
(***************************************************************************)
\* The uploads the middleware accepted and stored: request and position.
StoredUploads == {u \in Requests \X (1..MaxCount) : u[2] <= Len(req[u[1]].files)}

\* C23: no two stored uploads, of one request or of two, have the same name,
\* and each is the file found under its name.
C23_DistinctFileNames ==
    /\ \A u, v \in StoredUploads :
          u # v => req[u[1]].files[u[2]].filename # req[v[1]].files[v[2]].filename
    /\ \A u \in StoredUploads :
          LET f == req[u[1]].files[u[2]].filename
          IN  f \in DOMAIN disk /\ disk[f] = [request |-> u[1], index |-> u[2]]

(***************************************************************************)
(* C24                                                                     *)
(***************************************************************************)
\* C24: no response carries the stack of an error, whatever NODE_ENV is.
C24_NoStackInResponses ==
    \A r \in Requests :
        Done(r) => (~Answer(r).stack /\ "stack" \notin Answer(r).keys)

(***************************************************************************)
(* C25                                                                     *)
(***************************************************************************)
\* The stored event is the one a create request was answered with.
FromPost(e) ==
    \E r \in Requests :
        Done(r) /\ Answer(r).status = 201 /\ Answer(r).event = <<EventJSON(e)>>

\* The stored event is one of the sample events of seedDatabase.
FromSeed(e) ==
    /\ seed = "done"
    /\ \E k \in 1..Len(dummyEvents) : e = Persisted(dummyEvents[k], e._id)

\* C25 as stated: every event in the store was created by a create request
\* that succeeded.
C25_CreatedByPostOnly == \A i \in 1..Len(store) : FromPost(store[i])

\* C25: every event in the store was created by a create request that
\* succeeded, or is one of the sample events that seedDatabase inserted after
\* it counted an empty collection at the start.
C25_CreatedByPostOrSeed ==
    \A i \in 1..Len(store) : FromPost(store[i]) \/ FromSeed(store[i])

\* The store holds the sample events and a created event.
C25_Witness ==
    /\ \E i \in 1..Len(store) : FromSeed(store[i]) /\ ~FromPost(store[i])
    /\ \E i \in 1..Len(store) : FromPost(store[i]) /\ ~FromSeed(store[i])

(***************************************************************************)
(* C26                                                                     *)
(***************************************************************************)
\* C26: no step of the server, a find request included, removes an event from
\* the store or changes a field of a stored event; and a step that answers a
\* find request leaves the store as it is.
C26_AppendOnly ==
    [][/\ Len(store') >= Len(store)
       /\ \A i \in 1..Len(store) : store'[i] = store[i]
       /\ get' # get => store' = store]_vars

\* A find request answered from a store that holds the sample events and a
\* created event.
C26_Witness ==
    /\ Len(store) = Len(dummyEvents) + 1
    /\ get # <<>> /\ Got.res.status = 200 /\ Len(Got.res.events) > 0

(***************************************************************************)
(* C27                                                                     *)
(***************************************************************************)
\* The storage layer rejects the document: its date is no date, or its
\* coordinates are not two numbers.
Rejected(doc) ==
    \/ ~doc.date.valid
    \/ Len(doc.location.coordinates) # 2
    \/ \E i \in 1..Len(doc.location.coordinates) : doc.location.coordinates[i].kind = "nan"

ValidArgument(date) == date # <<>> /\ date[1].valid

\* The selection after handleDateSelect(date).
Toggled(date) ==
    IF ~ValidArgument(date) THEN <<>>
    ELSE IF selectedDate # <<>> /\ UTCDay(selectedDate[1].ms) = UTCDay(date[1].ms)
         THEN <<>>
         ELSE date

\* C28: handleDateSelect with a valid date on the day of the selected date
\* sets selectedDate to null, with any other valid date sets it to that date,
\* and with an invalid date or null sets it to null; a change of the filters
\* leaves selectedDate as it is.  The dates are those of the timeline, and
\* for them the day of the browser's time zone and the UTC day give the same
\* answer.
C28_SelectionToggles ==
    /\ [](MainView =>
             \A date \in DateArguments :
                 ENABLED (handleDateSelect(date) /\ selectedDate' = Toggled(date)))
    /\ [][filters' # filters => selectedDate' = selectedDate]_vars

\* A date is selected and a filter is set.
C28_Witness ==
    /\ selectedDate # <<>>
    /\ filters # [title |-> <<>>, people |-> <<>>, tags |-> <<>>]
    /\ \E i \in 1..Len(allEvents) :
          /\ allEvents[i].date.ms # selectedDate[1].ms
          /\ startOfDay(allEvents[i].date.ms) = startOfDay(selectedDate[1].ms)

====
